---- MODULE Spec2Model ----
(***************************************************************************)
(* Model of the report generation pipeline: the session store              *)
(* (SessionManager), the orchestrator (ReportGenerator.generate and its    *)
(* four stages), the stage-2 worker pool, and the /api/generate stream     *)
(* handler that drives a run and forwards events to the caller.            *)
(*                                                                         *)
(* One action is one synchronous segment of the JavaScript code, from one  *)
(* await to the next.  External calls (fragment fetch, completion call)    *)
(* are "in flight" in the state between the segment that issues them and   *)
(* the segment that consumes their outcome.                                *)
(***************************************************************************)
EXTENDS Integers, Sequences, FiniteSets, TLC

\* ------------------------------------------------------------------ bounds
\* Number of leading blueprint categories a run works through.
MaxCategories == 2
\* Number of stream connections (runs) that may be opened on the session.
MaxRuns == 2
\* Number of failures of external calls and of data extraction (fetches,
\* completion calls, extractions) that the environment injects in all.
MaxFaults == 2
\* Number of times the clock is observed to advance.
MaxTicks == 5
\* Number of throttle() calls each caller of the throttle makes.
MaxCalls == 2
\* Number of calls made on the cache or on the session store from outside a
\* run.
MaxOps == 3

\* --------------------------------------------------------------- blueprint
REPORT_BLUEPRINT ==
  << [id |-> "game_context",
      signals |-> <<"home_vs_away", "competition_round_schedule", "kickoff_weather_pitch">>],
     [id |-> "team_context",
      signals |-> <<"recent_form_results", "tactical_shape_trends">>],
     [id |-> "key_players",
      signals |-> <<"key_players_lineup", "injury_report">>],
     [id |-> "tactical_battle",
      signals |-> <<"managerial_approach", "matchup_analysis">>],
     [id |-> "psych_context",
      signals |-> <<"motivation_factors", "h2h_history_psychology">>] >>

Min(a, b) == IF a < b THEN a ELSE b

\* The categories of the blueprint that the model runs (a prefix, in order).
Blueprint == SubSeq(REPORT_BLUEPRINT, 1, Min(MaxCategories, Len(REPORT_BLUEPRINT)))

RECURSIVE SignalsFrom(_, _)
SignalsFrom(bp, c) ==
  IF c > Len(bp) THEN << >>
  ELSE [s \in 1..Len(bp[c].signals) |->
          [categoryId |-> bp[c].id, signal |-> bp[c].signals[s]]]
       \o SignalsFrom(bp, c + 1)

\* getAllSignals(): every (category, signal) pair, category by category.
getAllSignals == SignalsFrom(Blueprint, 1)

NumTasks == Len(getAllSignals)
NumCats == Len(Blueprint)

\* The composite key `${categoryId}.${signal.id}` of a partial report.
PartialKeyByCategoryOnly(categoryId, signalId) == <<categoryId>>
PartialKey(categoryId, signalId) == <<categoryId, signalId>>

TaskKey(i) == PartialKey(getAllSignals[i].categoryId, getAllSignals[i].signal)

\* this.signalConcurrency
signalConcurrency == 2

\* Workers of the pool: Math.min(this.signalConcurrency, tasks.length)
Workers == 1..Min(signalConcurrency, NumTasks)

Runs == 1..MaxRuns

\* The six data fragments in fetch order, then the standings fallback query.
Fragments == <<"fixture", "statistics", "injuries", "lineups", "h2h", "standings">>
FallbackFrag == Len(Fragments) + 1

\* ---------------------------------------------------------------- messages
Undef == "undefined"
MsgNotFound == "Session not found"
MsgFixture == "Failed to fetch fixture details"
MsgLost == "Session lost"
MsgNoFixture == "Fixture data not available"
MsgFinal == "Failed to synthesize final report"
MsgMerge == "Failed to merge category"
MsgNoReport == "Report generation completed but no report found"
MsgSink == "Invalid state: Controller is already closed"
MsgTeams == "Cannot read properties of undefined (reading 'home')"
MsgLeague == "Cannot read properties of undefined (reading 'id')"
MsgHome == "Cannot read properties of undefined (reading 'id')"
MsgDate == "Cannot read properties of undefined (reading 'date')"
MsgName == "Cannot read properties of undefined (reading 'name')"
MsgNoKey == "OPENAI_API_KEY environment variable is not set"

\* JavaScript truthiness of an optional string field of an update.
Truthy(x) == x /= Undef /\ x /= ""

VARIABLES
  sessions,     \* ids present in SessionManager.sessions
  session,      \* the Session object of the one session id
  expired,      \* Date.now() - createdAt > SESSION_TTL
  hpc,          \* per run: position of the stream handler
  sinkBroken,   \* per run: the caller has gone, controller.enqueue throws
  sent,         \* per run: count of events delivered, by event name
  gen,          \* per run: the state of generate() (see NoGen)
  pool,         \* per run: the state of the stage-2 worker pool (see NoPool)
  runsAllowed,  \* number of connections the environment opens
  faults,       \* number of failures injected so far
  now,          \* Date.now(): the ms since the start of the clock's day
  day,          \* Date.now(): the whole days the clock has gone through
                \* (only the cache on its own lets it run that far)
  ticks,        \* number of times the clock has advanced
  rpm,          \* the configured requests per minute
  lastRequestTime, \* per RequestThrottle instance: this.lastRequestTime
  thr,          \* per caller of throttle(): its position (see NoCall)
  tlog,         \* per RequestThrottle instance: what its callers observed
  col,          \* per run: collectData() at the level of requests (see NoCol)
  cache,        \* apiFootballCache: per key its entry (see NoEntry)
  nlog,         \* what the external data system observed (see NoNetLog)
  api,          \* the latest call made on the cache or on the session store
                \* from outside a run, and what it returned (see NoApi)
  env,          \* process.env as the constructor of a generator reads it
  llm,          \* one analyzeSignal() call on its own (see NoLlm)
  limiter,      \* the RateLimiter's log of one client (see NoLimiter)
  retry,        \* one retryWithBackoff() call (see NoRetry)
  route         \* one GET /api/fixtures call over a range of dates (see NoRoute)

pipeVars == <<sessions, session, expired, hpc, sinkBroken, sent, gen, pool,
              runsAllowed>>
netVars == <<now, day, ticks, rpm, lastRequestTime, thr, tlog, col, cache, nlog, api>>
vars == <<sessions, session, expired, hpc, sinkBroken, sent, gen, pool,
          runsAllowed, faults, now, day, ticks, rpm, lastRequestTime, thr, tlog,
          col, cache, nlog, api, env, llm, limiter, retry, route>>
utilVars == <<env, llm, limiter, retry, route>>

\* The environment lets an external call or an extraction fail (fails = TRUE)
\* only while its budget of failures lasts.
Inject(fails) ==
  /\ fails => faults < MaxFaults
  /\ faults' = IF fails THEN faults + 1 ELSE faults

SessionId == "s1"

\* Date.now() when the modules are loaded and the session is created (far
\* above any minimum delay).
Epoch == 100000

\* this.SESSION_TTL when the environment sets none, in ms.
SESSION_TTL == 7200000

\* ------------------------------------------------------------- environment
\* The characters a configured value is made of: digits, a sign, a blank, a
\* letter, and a run of 400 digits 9 (a number beyond the largest double).
Digits == {"0", "3", "8", "9"}
Chars == Digits \cup {"-", " ", "x", "999..."}
DigitValue(c) == CASE c = "0" -> 0 [] c = "3" -> 3 [] c = "8" -> 8 [] OTHER -> 9

\* The longest configured value.
MaxEnvLen == 3

\* process.env.APIFOOTBALL_REQUESTS_PER_MINUTE: undefined or a string.
Unset == <<"undefined">>
EnvValues ==
  {Unset} \cup UNION { [1..n -> Chars] : n \in 0..MaxEnvLen }

\* A number: NaN, Infinity, -Infinity or an integer.
NaN == [kind |-> "nan", n |-> 0]
Infinity == [kind |-> "inf", n |-> 0]
NegInfinity == [kind |-> "-inf", n |-> 0]
Finite(n) == [kind |-> "int", n |-> n]

\* The digits of str from position i on, read after the value acc.
RECURSIVE ParseDigits(_, _, _)
ParseDigits(str, i, acc) ==
  IF i > Len(str) \/ str[i] \notin Digits \cup {"999..."} THEN acc
  ELSE IF str[i] = "999..." \/ acc.kind = "inf" THEN ParseDigits(str, i + 1, Infinity)
  ELSE ParseDigits(str, i + 1, Finite(acc.n * 10 + DigitValue(str[i])))

\* The position of the first character of str, from i on, that is no blank.
RECURSIVE SkipBlanks(_, _)
SkipBlanks(str, i) ==
  IF i <= Len(str) /\ str[i] = " " THEN SkipBlanks(str, i + 1) ELSE i

\* Number.parseInt(str, 10): leading blanks, an optional sign, then the
\* longest run of digits, negated after a minus sign; NaN when no digit
\* follows.
parseInt(str) ==
  LET i == SkipBlanks(str, 1)
      neg == i <= Len(str) /\ str[i] = "-"
      j == IF neg THEN i + 1 ELSE i
  IN IF j > Len(str) \/ str[j] \notin Digits \cup {"999..."} THEN NaN
     ELSE LET v == ParseDigits(str, j, Finite(0))
          IN IF ~neg THEN v
             ELSE IF v.kind = "int" THEN Finite(0 - v.n) ELSE NegInfinity

\* The argument the constructor of ReportGenerator passes to RequestThrottle:
\* the configured value, '8' when it is unset or empty, parsed, and 8 unless
\* the number is finite and positive.
configuredRpmThrottleDefault(value) ==
  LET v == parseInt(IF value = Unset \/ value = << >> THEN <<"8">> ELSE value)
  IN IF v.kind = "int" /\ v.n > 0 THEN v.n ELSE 30
configuredRpm(value) ==
  LET v == parseInt(IF value = Unset \/ value = << >> THEN <<"8">> ELSE value)
  IN IF v.kind = "int" /\ v.n > 0 THEN v.n ELSE 8

\* The environment before a generator has read it.
NoEnv == [APIFOOTBALL_REQUESTS_PER_MINUTE |-> Unset, read |-> FALSE]
EnvIdle == env = NoEnv

\* ------------------------------------------------------------ analyzeSignal
\* What the completion service puts in each field of its structured output:
\*   insights   : missing | empty (an empty array) | list
\*   narrative  : missing | empty | short (fewer than 10 characters) |
\*                medium (at least 10 characters, at most 20 once trimmed) |
\*                long (more than 20 once trimmed)
\*   emoji      : missing | empty | char
\*   confidence : missing | string | out_of_range (a number outside 0..1) |
\*                in_range
\* or the call to the service fails.
ServiceOutputs ==
  [insights : {"missing", "empty", "list"},
   narrative : {"missing", "empty", "short", "medium", "long"},
   emoji : {"missing", "empty", "char"},
   confidence : {"missing", "string", "out_of_range", "in_range"}]
InvokeThrew == [insights |-> "threw", narrative |-> "threw", emoji |-> "threw",
          confidence |-> "threw"]
NoResultYet == [insights |-> "none", narrative |-> "none", emoji |-> "none",
                confidence |-> "none"]

\* SignalReportSchema: insights is an array of at least one string, narrative
\* a string of at least 10 characters, emoji a string of at least one
\* character, confidence a number from 0 to 1.
SignalReportSchema(output) ==
  /\ output.insights = "list"
  /\ output.narrative \in {"medium", "long"}
  /\ output.emoji = "char"
  /\ output.confidence = "in_range"

\* chain.invoke() of createSignalChain(): the model is wrapped by
\* withStructuredOutput(SignalReportSchema), so an output that the schema
\* rejects makes invoke() throw, as a failed call to the service does.
chainInvoke(output) ==
  IF output /= InvokeThrew /\ SignalReportSchema(output) THEN output ELSE InvokeThrew

\* The two analyzeSignal functions of the repository: the one that calls the
\* chain once, and the one that retries.
Variants == {"single", "retrying"}

\* The default of the maxRetries parameter of the retrying analyzeSignal.
signalMaxRetries == 2

\* analyzeSignal (single call): the result for what chain.invoke() returned.
\* It is filled with defaults when narrative or emoji is falsy or confidence
\* is no number, and returned as it is otherwise.
analyzeSignalOnce(result) ==
  IF \/ result.narrative \in {"missing", "empty"}
     \/ result.emoji \in {"missing", "empty"}
     \/ result.confidence \in {"missing", "string"}
  THEN [insights |-> IF result.insights = "missing" THEN "default" ELSE result.insights,
        narrative |-> IF result.narrative \in {"missing", "empty"} THEN "default"
                      ELSE result.narrative,
        emoji |-> IF result.emoji \in {"missing", "empty"} THEN "default" ELSE result.emoji,
        confidence |-> IF result.confidence \in {"missing", "string"} THEN "default"
                       ELSE result.confidence]
  ELSE result

\* The fallback result of the catch blocks.
FallbackResultWithoutInsights ==
  [insights |-> "missing", narrative |-> "default", emoji |-> "default",
   confidence |-> "default"]
FallbackResult == [insights |-> "default", narrative |-> "default", emoji |-> "default",
                   confidence |-> "default"]

\* analyzeSignal (retrying): the validity tests of a result.
hasInsights(result) == result.insights = "list"
hasNarrative(result) == result.narrative = "long"
hasEmoji(result) == result.emoji = "char"
hasConfidence(result) == result.confidence = "in_range"
AllValid(result) ==
  hasInsights(result) /\ hasNarrative(result) /\ hasEmoji(result) /\ hasConfidence(result)

\* analyzeSignal (retrying), last attempt: the missing fields are filled.
Filled(result) ==
  [insights |-> IF hasInsights(result) THEN result.insights ELSE "default",
   narrative |-> IF hasNarrative(result) THEN result.narrative ELSE "default",
   emoji |-> IF hasEmoji(result) THEN result.emoji ELSE "default",
   confidence |-> IF hasConfidence(result) THEN result.confidence ELSE "default"]

\* One analyzeSignal() call:
\*   variant : which of the two functions is called
\*   apiKey  : OPENAI_API_KEY is set (getChatModel() throws without it)
\*   pc      : idle | invoke (awaiting chain.invoke) | wait (the delay before
\*             a retry) | returned | rejected
\*   attempt : the loop counter;  calls : chain.invoke() calls made
\*   output  : what the completion service answered the latest call with
\*   received: what the latest chain.invoke() handed back
\*   result  : what the call returned
NoLlm ==
  [variant |-> "single", apiKey |-> TRUE, pc |-> "idle", attempt |-> 0, calls |-> 0,
   output |-> NoResultYet, received |-> NoResultYet, result |-> NoResultYet]
LlmIdle == llm = NoLlm

\* ------------------------------------------------------------ RateLimiter
\* The limits configured at construction.
perMinute == 3
perHour == 20
perDay == 50
DefaultConfig == [perMinute |-> perMinute, perHour |-> perHour, perDay |-> perDay]

\* The three windows of checkLimit, in ms.
Minute == 60 * 1000
Hour == 60 * 60 * 1000
Day == 24 * 60 * 60 * 1000

\* logs.filter(log => log.timestamp > since).length
CountSince(logs, since) == Len(SelectSeq(logs, LAMBDA ts : ts > since))

\* cleanup(clientId, now): only the requests of the last 24 hours are kept.
cleanup(logs, t) == SelectSeq(logs, LAMBDA ts : ts > t - Day)

\* The test of a count against its limit.
ExceededAbove(count, limit) == count > limit
Exceeded(count, limit) == count >= limit

\* logs.find(log => log.timestamp > since): the timestamp of the first such
\* entry, and the reset time checkLimit derives from it.
RECURSIVE FindSince(_, _, _)
FindSince(logs, since, i) ==
  IF i > Len(logs) THEN 0
  ELSE IF logs[i] > since THEN logs[i] ELSE FindSince(logs, since, i + 1)
ResetAt(logs, t, window) ==
  IF CountSince(logs, t - window) > 0
  THEN FindSince(logs, t - window, 1) + window ELSE t + window

\* checkLimit(request) at time t on the log of the request's client, under
\* this.config: the log it leaves behind and the result it returns.
checkLimit(logs, t, config) ==
  LET kept == cleanup(logs, t)
      requestsLastMinute == CountSince(kept, t - Minute)
      requestsLastHour == CountSince(kept, t - Hour)
      requestsLastDay == CountSince(kept, t - Day)
      limitType == IF Exceeded(requestsLastMinute, config.perMinute) THEN "minute"
                   ELSE IF Exceeded(requestsLastHour, config.perHour) THEN "hour"
                   ELSE IF Exceeded(requestsLastDay, config.perDay) THEN "day"
                   ELSE Undef
  IN [requests |-> kept, allowed |-> limitType = Undef, limitType |-> limitType,
      resetAt |-> [minute |-> ResetAt(kept, t, Minute),
                   hour |-> ResetAt(kept, t, Hour),
                   day |-> ResetAt(kept, t, Day)]]

\* recordRequest(request) at time t.
recordRequest(logs, t) == Append(logs, t)

\* updateConfig(config): { ...this.config, ...config }
updateConfig(old, config) ==
  [k \in DOMAIN old |-> IF k \in DOMAIN config THEN config[k] ELSE old[k]]

\* The log of a client that has made n admitted requests as early as the
\* limiter admitted them: after a refusal it comes back at the reset time of
\* the limit it was refused for.
RECURSIVE Admitted(_, _, _)
Admitted(st, t, n) ==
  IF n = 0 THEN [st EXCEPT !.now = t]
  ELSE LET res == checkLimit(st.requests, t, st.config)
       IN IF res.allowed
          THEN Admitted([st EXCEPT !.requests = recordRequest(res.requests, t),
                                   !.recorded = Append(@, t)], t, n - 1)
          ELSE Admitted([st EXCEPT !.requests = res.requests], res.resetAt[res.limitType], n)

\* The limiter and what was observed of it:
\*   requests : this.requests.get(clientId), the timestamps logged
\*   config   : this.config
\*   reset, reconfigured : resetClient, updateConfig was called
\*   now      : Date.now()
\*   recorded : every timestamp recordRequest has logged, cleaned up or not
\*   checked  : checkLimit was called;  allowed, limitType : what the latest
\*              call returned;  at : when it was called;  known : how many
\*              requests had been recorded by then
\*   ops      : the number of steps taken
NoLimiter ==
  [requests |-> << >>, config |-> DefaultConfig, reset |-> FALSE,
   reconfigured |-> FALSE, now |-> Epoch, recorded |-> << >>, checked |-> FALSE,
   allowed |-> TRUE, limitType |-> Undef, at |-> 0, known |-> 0, ops |-> 0]
LimiterIdle == limiter = NoLimiter

\* The history of a client whose first burst had `first` requests, a minute
\* before the others.
\* The requests are admitted perHour at a time, each part continuing where
\* the one before it stopped.
RECURSIVE AdmittedInParts(_, _, _)
AdmittedInParts(st, t, n) ==
  IF n <= perHour THEN Admitted(st, t, n)
  ELSE LET part == Admitted(st, t, perHour)
       IN AdmittedInParts(part, part.now, n - perHour)
History(first, n) ==
  IF n <= first THEN Admitted(NoLimiter, Epoch, n)
  ELSE AdmittedInParts(Admitted(NoLimiter, Epoch, first), Epoch + Minute, n - first)

\* -------------------------------------------------------- retryWithBackoff
\* An option is absent (<< >>) or given (<<value>>); destructuring puts the
\* default in the place of an absent one.
Absent == << >>
Option(given, default) == IF given = Absent THEN default ELSE given[1]

\* The largest maxRetries a caller passes.
MaxRetriesGiven == 3

\* The options callers pass.
RetryOptions ==
  [maxRetries : {Absent} \cup { <<n>> : n \in -1..MaxRetriesGiven },
   initialDelay : {Absent, <<20000>>},
   maxDelay : {Absent, <<1500>>},
   backoffMultiplier : {Absent, <<3>>}]

\* The defaults of the destructuring.
defaultMaxRetries == 3
defaultInitialDelay == 1000
defaultMaxDelay == 10000
defaultBackoffMultiplier == 2

\* delay = Math.min(delay * backoffMultiplier, maxDelay)
nextDelay(delay, backoffMultiplier, maxDelay) == Min(delay * backoffMultiplier, maxDelay)

\* One retryWithBackoff(fn, options) call:
\*   options  : the options object passed
\*   maxRetries, maxDelay, backoffMultiplier : the destructured options
\*   pc       : idle | fn | wait | returned | thrown
\*   attempt  : the loop variable;  delay : the local of that name
\*   lastError : the error caught last (absent before the first: undefined)
\*   calls    : how often fn was called;  failed : how many of them rejected
\*   longestWait : the longest setTimeout delay so far
\*   thrown   : what the call rejected with, when pc = thrown
NoRetry ==
  [options |-> [maxRetries |-> Absent, initialDelay |-> Absent, maxDelay |-> Absent,
                backoffMultiplier |-> Absent],
   maxRetries |-> defaultMaxRetries, maxDelay |-> defaultMaxDelay,
   backoffMultiplier |-> defaultBackoffMultiplier, pc |-> "idle", attempt |-> 0,
   delay |-> defaultInitialDelay, lastError |-> Absent, calls |-> 0, failed |-> 0,
   longestWait |-> 0, thrown |-> Absent]
RetryIdle == retry = NoRetry

\* The error the n-th call of fn rejects with.
ErrorOf(n) == <<"error", n>>

\* A number of ms that may be beyond 2^31 is held as whole days and the ms
\* left over: Ms(n) is the number n, Days(n) is n * 24 * 60 * 60 * 1000.
Ms(n) == [days |-> n \div Day, ms |-> n % Day]
Days(n) == [days |-> n, ms |-> 0]

\* a + b and a > b on such numbers, and the integer one of them is.
Plus(a, b) ==
  [days |-> a.days + b.days + ((a.ms + b.ms) \div Day), ms |-> (a.ms + b.ms) % Day]
After(a, b) == a.days > b.days \/ (a.days = b.days /\ a.ms > b.ms)
ToInt(a) == a.days * Day + a.ms
Pred(a) == IF a.ms > 0 THEN [a EXCEPT !.ms = @ - 1] ELSE [days |-> a.days - 1, ms |-> Day - 1]

\* Date.now(), and the time of the clock's day at which now is t.
Clock == [days |-> day + (now \div Day), ms |-> now % Day]
At(t) == [days |-> day + (t \div Day), ms |-> t % Day]

\* A timer set by setInterval when the modules are loaded (at Epoch) is due
\* every interval from then on.  The latest time up to t at which it was due
\* (a day is a whole number of either interval of the program), and whether
\* it was due while the clock went from one time to a later one.
LastDue(t, interval) ==
  IF t.ms >= (Epoch % interval)
  THEN [days |-> t.days, ms |-> t.ms - ((t.ms - (Epoch % interval)) % interval)]
  ELSE [days |-> t.days - 1, ms |-> (Day - interval) + (Epoch % interval)]
TimerFired(from, to, interval) == After(LastDue(to, interval), from)

\* ------------------------------------------------------------ session store
\* createSession: the fresh Session object.  collectedData holds the names
\* of the fragments stored, fixture the record stored as
\* collectedData.fixture (none before there is one).
NewSession ==
  [createdAt |-> Epoch, status |-> "pending", error |-> Undef, collectedData |-> {},
   fixture |-> "none", partialReports |-> << >>, categoryReports |-> << >>,
   finalReport |-> "null"]

\* The expiry test of getSession, updateSession and cleanupExpiredSessions
\* at time t.
sessionExpiredAtLimit(s, t) == t - s.createdAt >= SESSION_TTL
sessionExpired(s, t) == t - s.createdAt > SESSION_TTL

\* The expiry test at a time held as days and ms: SESSION_TTL is less than a
\* day, so a session created more than a day before that time has expired.
sessionExpiredAt(s, t) ==
  LET d == t.days - (s.createdAt \div Day)
  IN IF d > 1 THEN TRUE
     ELSE sessionExpired([s EXCEPT !.createdAt = @ % Day], (d * Day) + t.ms)

\* setInterval(() => sessionManager.cleanupExpiredSessions(), 30 * 60 * 1000),
\* set when the module is loaded: the map after the clock has gone from one
\* time to a later one.
sessionCleanupInterval == 1800000
sessionsAfterTimers(ss, s, from, to) ==
  IF /\ TimerFired(from, to, sessionCleanupInterval)
     /\ SessionId \in ss
     /\ sessionExpiredAt(s, LastDue(to, sessionCleanupInterval))
  THEN ss \ {SessionId}
  ELSE ss

\* getSession(id) on the map ss returns the object (not null).
getSession(ss) == SessionId \in ss /\ ~expired

\* The map after a getSession(id) call: an expired entry is deleted.
deleteExpired(ss) == IF expired THEN ss \ {SessionId} ELSE ss

\* An update with every optional field absent.
NoUpdate ==
  [status |-> Undef, error |-> Undef, collectedData |-> {}, fixture |-> "none",
   partialReport |-> << >>, categoryReport |-> << >>, finalReport |-> Undef]

\* map[key] = value, every other entry kept.
Put(map, key, value) ==
  [k \in (DOMAIN map) \cup {key} |-> IF k = key THEN value ELSE map[k]]

\* The field assignments of updateSession on a session object that was found.
ApplyUpdateReplacing(s, u) ==
  [s EXCEPT
     !.status = IF Truthy(u.status) THEN u.status ELSE @,
     !.error = IF Truthy(u.error) THEN u.error ELSE @,
     !.collectedData = IF u.collectedData /= {} THEN u.collectedData ELSE @,
     !.fixture = IF u.fixture /= "none" THEN u.fixture ELSE @,
     !.partialReports = IF u.partialReport /= << >>
                        THEN Put(<< >>, u.partialReport[1], u.partialReport[2]) ELSE @,
     !.categoryReports = IF u.categoryReport /= << >>
                         THEN Put(<< >>, u.categoryReport[1], u.categoryReport[2]) ELSE @,
     !.finalReport = IF Truthy(u.finalReport) THEN u.finalReport ELSE @]
ApplyUpdate(s, u) ==
  [s EXCEPT
     !.status = IF Truthy(u.status) THEN u.status ELSE @,
     !.error = IF Truthy(u.error) THEN u.error ELSE @,
     !.collectedData = @ \cup u.collectedData,
     !.fixture = IF u.fixture /= "none" THEN u.fixture ELSE @,
     !.partialReports = IF u.partialReport /= << >>
                        THEN Put(@, u.partialReport[1], u.partialReport[2]) ELSE @,
     !.categoryReports = IF u.categoryReport /= << >>
                         THEN Put(@, u.categoryReport[1], u.categoryReport[2]) ELSE @,
     !.finalReport = IF Truthy(u.finalReport) THEN u.finalReport ELSE @]

\* -------------------------------------------------------------- generate()
\* The state of one generate() call together with the store it acts on:
\*   session, sessions : the store, as this segment has changed it so far
\*   pc        : none | fetch | s2 | signals | s3 | merge | s4 | final |
\*               resolved | rejected
\*   frag      : index of the fragment fetch in flight
\*   fixture   : the fixture record collectData() of this run holds (see
\*               FixtureRecords; none before it has one)
\*   cat       : index of the category whose merge call is in flight
\*   mergeFixture : the fixture record mergeCategories() read at its start
\*   mergeIn   : the partial reports handed to that merge call
\*   thrown    : message of the error generate() rejected with
\*   completedSignals, completedCategories : the ProgressTracker's counters
\*   and observations of what the run has done:
\*   stage (the stage generate() has entered, 0 before the first),
\*   primaryFailed, failedFrags (the fragment fetches that failed),
\*   nodataFrags (the fragment fetches that succeeded with no data),
\*   collectDone, mergeCalls, mergeFailed, catsDone, finalCalls,
\*   finalResult (none | ok | threw: how the final synthesis call returned),
\*   lastProgress (the last percentage delivered to the sink, -1 before the
\*   first), nonDecreasing (no delivered percentage was below its predecessor)
NoGen ==
  [pc |-> "none", frag |-> 0, fixture |-> "none", cat |-> 0, mergeFixture |-> "none",
   mergeIn |-> {}, thrown |-> Undef,
   completedSignals |-> 0, completedCategories |-> 0, stage |-> 0,
   primaryFailed |-> FALSE, failedFrags |-> {}, nodataFrags |-> {}, collectDone |-> FALSE, mergeCalls |-> {},
   mergeFailed |-> {}, catsDone |-> 0, finalCalls |-> 0, finalResult |-> "none",
   lastProgress |-> -1, nonDecreasing |-> TRUE]

\* A segment works on the generate() state g of its run and on the store.
Seg(g) == [g |-> g, session |-> session, sessions |-> sessions]

\* updateSession(id, updates) within a segment: an absent or expired session
\* is left as it is (the call returns false); an expired entry is deleted.
updateSession(st, u) ==
  [st EXCEPT !.session = IF getSession(st.sessions) THEN ApplyUpdate(@, u) ELSE @,
             !.sessions = deleteExpired(@)]

\* The catch block of generate(): record the error in the session, rethrow.
CatchUnknownError(st, message) ==
  [updateSession(st, [NoUpdate EXCEPT !.status = "error", !.error = "Unknown error"])
     EXCEPT !.g.pc = "rejected", !.g.thrown = message]
Catch(st, message) ==
  [updateSession(st, [NoUpdate EXCEPT !.status = "error", !.error = message])
     EXCEPT !.g.pc = "rejected", !.g.thrown = message]

\* A progress notification: the sink throws when the caller has gone.
EmitThen(st, broken, next) == IF broken THEN Catch(st, MsgSink) ELSE next

\* The sink receives the percentage of a progress update.
Sink(g, percent) ==
  [g EXCEPT !.lastProgress = percent,
            !.nonDecreasing = @ /\ percent >= g.lastProgress]

Deliver(st, percent) == [st EXCEPT !.g = Sink(@, percent)]

\* The percentages the ProgressTracker computes from its counters.
DataCollectionProgress == 10
SignalProgressFromRemaining(completed, total) == 20 + (((total - completed) * 50) \div total)
SignalProgress(completed, total) == 20 + ((completed * 50) \div total)
CategoryProgress(completed, total) == 70 + ((completed * 20) \div total)
FinalSynthesisProgress(progress) == 90 + progress
CompletedProgress == 100

\* generate() up to its first await: without a session it throws before its
\* try block; else status becomes generating, the first progress event goes
\* out, and the fetch of the fixture record is issued.
GenerateStart(st, broken) ==
  IF ~getSession(st.sessions)
  THEN [st EXCEPT !.sessions = deleteExpired(@), !.g.pc = "rejected",
                  !.g.thrown = MsgNotFound]
  ELSE LET s1 == updateSession([st EXCEPT !.g.stage = 1],
                                [NoUpdate EXCEPT !.status = "generating"])
       IN EmitThen(s1, broken,
            Deliver([s1 EXCEPT !.g.pc = "fetch", !.g.frag = 1], DataCollectionProgress))

\* The fixture records the fixture query may be answered with: a full one
\* (ok), or one with no teams, with teams that hold no home team, with no
\* league, with a league that holds nothing, or with no fixture key.
FixtureRecords == {"ok", "noteams", "nohome", "noleague", "emptyleague", "nofixture"}

\* Outcomes of the fetch of fragment k.  The fixture query may succeed with a
\* record, with an empty list (empty) or with no list (nolist); a query for
\* statistics, injuries, lineups or head-to-head may succeed with no list;
\* the standings query, whose getter returns a list or throws, may be
\* rejected for the plan's season range.
FetchOutcomes(k) ==
  IF k = 1 THEN FixtureRecords \cup {"empty", "nolist", "fail"}
  ELSE IF k < Len(Fragments) THEN {"ok", "nolist", "fail"}
  ELSE IF k = Len(Fragments) THEN {"ok", "fail", "freeplan"}
  ELSE {"ok", "fail"}

\* The arguments of getStandings are evaluated before the call: without a
\* league in the fixture record no standings query is issued.
OutcomesFor(g) ==
  IF g.frag >= Len(Fragments) /\ g.fixture = "noleague" THEN {"ok"} ELSE FetchOutcomes(g.frag)

\* collectData() after a fixture record was stored: fixture.teams.home.id is
\* read at once, fixture.league.id when the standings are due.
FixtureRead(st, outcome, broken) ==
  IF outcome = "noteams" THEN Catch(st, MsgTeams)
  ELSE IF outcome = "nohome" THEN Catch(st, MsgHome)
  ELSE LET s1 == [st EXCEPT !.g.fixture = outcome]
       IN EmitThen(s1, broken, Deliver([s1 EXCEPT !.g.frag = 2], DataCollectionProgress))

\* updateSession(id, { collectedData: { [name]: data } }), and the same for
\* the fixture record.
Collected(st, name) == updateSession(st, [NoUpdate EXCEPT !.collectedData = {name}])
CollectedFixture(st, record) ==
  updateSession(st, [NoUpdate EXCEPT !.collectedData = {Fragments[1]}, !.fixture = record])

\* The proxy answered the fetch of fragment k with success: false, or with
\* success and no data.
FetchNoted(st, k, outcome) ==
  IF outcome \in {"fail", "freeplan"} THEN [st EXCEPT !.g.failedFrags = @ \cup {k}]
  ELSE IF outcome = "nolist" THEN [st EXCEPT !.g.nodataFrags = @ \cup {k}]
  ELSE st

\* collectData() from the return of the fetch of fragment k to the next await.
CollectStepPrimaryOptional(s, k, outcome, broken) ==
  LET st == FetchNoted(s, k, outcome) IN
  IF k = 1 /\ outcome \in FixtureRecords \ {"ok"} THEN
    FixtureRead(CollectedFixture(st, outcome), outcome, broken)
  ELSE IF k < Len(Fragments) THEN
    LET s0 == IF k = 1 /\ outcome /= "ok" THEN [st EXCEPT !.g.primaryFailed = TRUE] ELSE st
        s1 == IF outcome /= "ok" THEN s0
              ELSE IF k = 1 THEN CollectedFixture(s0, "ok")
              ELSE Collected(s0, Fragments[k])
        s2 == IF k = 1 /\ outcome = "ok" THEN [s1 EXCEPT !.g.fixture = "ok"] ELSE s1
    IN EmitThen(s2, broken, Deliver([s2 EXCEPT !.g.frag = k + 1], DataCollectionProgress))
  ELSE IF s.g.fixture = "noleague" THEN Catch(s, MsgLeague)
  ELSE IF k = Len(Fragments) /\ outcome = "freeplan" THEN
    [st EXCEPT !.g.frag = FallbackFrag]
  ELSE
    LET s1 == IF outcome = "ok" THEN Collected(st, Fragments[Len(Fragments)]) ELSE st
    IN EmitThen(s1, broken,
         Deliver([s1 EXCEPT !.g.pc = "s2", !.g.collectDone = TRUE], DataCollectionProgress))
CollectStepSecondaryFatal(s, k, outcome, broken) ==
  LET st == FetchNoted(s, k, outcome) IN
  IF k = 1 THEN
    IF outcome \in FixtureRecords
    THEN FixtureRead(CollectedFixture(st, outcome), outcome, broken)
    ELSE Catch([st EXCEPT !.g.primaryFailed = TRUE], MsgFixture)
  ELSE IF k < Len(Fragments) THEN
    LET s1 == IF outcome = "ok" THEN Collected(st, Fragments[k]) ELSE st
    IN IF outcome /= "ok" THEN Catch(st, MsgFixture) ELSE EmitThen(s1, broken, Deliver([s1 EXCEPT !.g.frag = k + 1], DataCollectionProgress))
  ELSE IF s.g.fixture = "noleague" THEN Catch(s, MsgLeague)
  ELSE IF k = Len(Fragments) /\ outcome = "freeplan" THEN
    [st EXCEPT !.g.frag = FallbackFrag]
  ELSE
    LET s1 == IF outcome = "ok" THEN Collected(st, Fragments[Len(Fragments)]) ELSE st
    IN EmitThen(s1, broken,
         Deliver([s1 EXCEPT !.g.pc = "s2", !.g.collectDone = TRUE], DataCollectionProgress))
CollectStep(s, k, outcome, broken) ==
  LET st == FetchNoted(s, k, outcome) IN
  IF k = 1 THEN
    IF outcome \in FixtureRecords
    THEN FixtureRead(CollectedFixture(st, outcome), outcome, broken)
    ELSE Catch([st EXCEPT !.g.primaryFailed = TRUE], MsgFixture)
  ELSE IF k < Len(Fragments) THEN
    LET s1 == IF outcome = "ok" THEN Collected(st, Fragments[k]) ELSE st
    IN EmitThen(s1, broken, Deliver([s1 EXCEPT !.g.frag = k + 1], DataCollectionProgress))
  ELSE IF s.g.fixture = "noleague" THEN Catch(s, MsgLeague)
  ELSE IF k = Len(Fragments) /\ outcome = "freeplan" THEN
    [st EXCEPT !.g.frag = FallbackFrag]
  ELSE
    LET s1 == IF outcome = "ok" THEN Collected(st, Fragments[Len(Fragments)]) ELSE st
    IN EmitThen(s1, broken,
         Deliver([s1 EXCEPT !.g.pc = "s2", !.g.collectDone = TRUE], DataCollectionProgress))

\* generateSignals() before the workers start.
SignalsStart(st) ==
  IF ~getSession(st.sessions)
  THEN Catch([st EXCEPT !.sessions = deleteExpired(@), !.g.stage = 2], MsgLost)
  ELSE IF "fixture" \notin st.session.collectedData
  THEN Catch([st EXCEPT !.g.stage = 2], MsgNoFixture)
  ELSE [st EXCEPT !.g.pc = "signals", !.g.stage = 2]

\* The partial reports of category c that the session holds, gathered by key.
PartialsOfCompleteOnly(s, c) ==
  IF \A j \in 1..Len(Blueprint[c].signals) :
       PartialKey(Blueprint[c].id, Blueprint[c].signals[j]) \in DOMAIN s.partialReports
  THEN { s.partialReports[PartialKey(Blueprint[c].id, Blueprint[c].signals[j])] :
           j \in 1..Len(Blueprint[c].signals) }
  ELSE {}
PartialsOf(s, c) ==
  { s.partialReports[PartialKey(Blueprint[c].id, Blueprint[c].signals[i])] :
      i \in { j \in 1..Len(Blueprint[c].signals) :
                PartialKey(Blueprint[c].id, Blueprint[c].signals[j])
                  \in DOMAIN s.partialReports } }

\* The arguments homeTeam and awayTeam of mergeCategory() are read from the
\* fixture record: fixture.teams.home.name throws a TypeError when the record
\* has no teams or its teams hold no home team.
MergeArgsThrow(record) == record \in {"noteams", "nohome"}

\* The loop of mergeCategories() from category c on, up to the next merge
\* call: categories without partial reports are skipped on the spot, and so
\* is a category whose merge arguments throw (inside the try of the loop:
\* the error is logged, no merge call is made, nothing is stored).
RECURSIVE MergeLoop(_, _, _)
MergeLoop(st, c, broken) ==
  IF c > NumCats THEN [st EXCEPT !.g.pc = "s4"]
  ELSE IF broken THEN Catch(st, MsgSink)
  ELSE LET s1 == Deliver(st, CategoryProgress(st.g.completedCategories, NumCats))
       IN IF PartialsOf(s1.session, c) = {} \/ MergeArgsThrow(s1.g.mergeFixture)
          THEN MergeLoop([s1 EXCEPT !.g.catsDone = @ + 1], c + 1, broken)
          ELSE [s1 EXCEPT !.g.pc = "merge", !.g.cat = c,
                          !.g.mergeIn = PartialsOf(s1.session, c),
                          !.g.mergeCalls = @ \cup {c}]

\* mergeCategories() before its loop: the session and its fixture record are
\* read once, here.
MergeStart(st, broken) ==
  IF ~getSession(st.sessions)
  THEN Catch([st EXCEPT !.sessions = deleteExpired(@), !.g.stage = 3], MsgLost)
  ELSE IF "fixture" \notin st.session.collectedData
  THEN Catch([st EXCEPT !.g.stage = 3], MsgNoFixture)
  ELSE MergeLoop([st EXCEPT !.g.stage = 3, !.g.mergeFixture = st.session.fixture], 1, broken)

\* mergeCategories() from the return of the merge call for category g.cat:
\* the report is stored and emitCategoryComplete counts the category and
\* notifies (a throwing sink is caught here); a failed call is only logged.
MergeStepRethrows(st, ok, broken) ==
  LET report == [categoryId |-> Blueprint[st.g.cat].id, from |-> st.g.mergeIn]
      s1 == updateSession(st, [NoUpdate EXCEPT
              !.categoryReport = <<Blueprint[st.g.cat].id, report>>])
      s2 == [s1 EXCEPT !.g.completedCategories = @ + 1]
      s3 == IF broken THEN s2
            ELSE Deliver(s2, CategoryProgress(s2.g.completedCategories, NumCats))
  IN IF ok
     THEN MergeLoop([s3 EXCEPT !.g.catsDone = @ + 1], st.g.cat + 1, broken)
     ELSE Catch([st EXCEPT !.g.mergeFailed = @ \cup {st.g.cat}], MsgMerge)
MergeStep(st, ok, broken) ==
  LET report == [categoryId |-> Blueprint[st.g.cat].id, from |-> st.g.mergeIn]
      s1 == updateSession(st, [NoUpdate EXCEPT
              !.categoryReport = <<Blueprint[st.g.cat].id, report>>])
      s2 == [s1 EXCEPT !.g.completedCategories = @ + 1]
      s3 == IF broken THEN s2
            ELSE Deliver(s2, CategoryProgress(s2.g.completedCategories, NumCats))
      s4 == IF ok THEN s3 ELSE [st EXCEPT !.g.mergeFailed = @ \cup {st.g.cat}]
  IN MergeLoop([s4 EXCEPT !.g.catsDone = @ + 1], st.g.cat + 1, broken)

\* The arguments homeTeam, awayTeam, league and date of a completion call
\* are read from the fixture record the session s holds, in that order:
\* fixture.teams.home.name, fixture.league.name and fixture.fixture.date.
\* The TypeError the first unreadable one throws ("" when all can be read;
\* a league that holds nothing gives the name undefined).
ArgsError(s) ==
  CASE s.fixture = "noteams" -> MsgTeams
    [] s.fixture = "nohome" -> MsgName
    [] s.fixture = "noleague" -> MsgName
    [] s.fixture = "nofixture" -> MsgDate
    [] OTHER -> ""
ArgsThrow(s) == ArgsError(s) /= ""

\* synthesizeFinal() up to the completion request.  The arguments of
\* synthesizeFinalReport() are evaluated first (from the fixture record), and
\* synthesizeFinalReport() builds its chain outside its try: with no model
\* configured it rejects with getChatModel()'s error and no request is made.
FinalStart(st, broken, noModel) ==
  LET s0 == [st EXCEPT !.g.stage = 4]
      s1 == Deliver(s0, FinalSynthesisProgress(5))
      s2 == Deliver(s1, FinalSynthesisProgress(7))
  IN IF broken THEN Catch(s0, MsgSink)
     ELSE IF ~getSession(s1.sessions)
     THEN Catch([s1 EXCEPT !.sessions = deleteExpired(@)], MsgLost)
     ELSE IF "fixture" \notin s1.session.collectedData THEN Catch(s1, MsgNoFixture)
     ELSE IF ArgsThrow(s1.session) THEN Catch(s2, ArgsError(s1.session))
     ELSE IF noModel
     THEN Catch([s2 EXCEPT !.g.finalCalls = @ + 1, !.g.finalResult = "threw"], MsgNoKey)
     ELSE [s2 EXCEPT !.g.pc = "final", !.g.finalCalls = @ + 1]

\* synthesizeFinal() from the return of the completion call, and the rest of
\* generate(): store the report, mark the session completed, emit 100.
FinalStep(st, ok, broken) ==
  IF ~ok THEN Catch([st EXCEPT !.g.finalResult = "threw"], MsgFinal)
  ELSE LET s0 == [st EXCEPT !.g.finalResult = "ok"]
           s1 == updateSession(Deliver(s0, FinalSynthesisProgress(9)),
                               [NoUpdate EXCEPT !.finalReport = "report"])
           s2 == updateSession(s1, [NoUpdate EXCEPT !.status = "completed"])
       IN EmitThen(s0, broken,
            EmitThen(s2, broken,
              Deliver([s2 EXCEPT !.g.pc = "resolved"], CompletedProgress)))

\* --------------------------------------------------------- stage-2 workers
\* The worker pool of one generateSignals() call:
\*   nextIndex : the shared counter (0-based, as in the code)
\*   wpc       : per worker: off | loop | llm | done | rejected
\*   wtask     : per worker: the task in hand (1-based position in the list)
\*   starts    : per task: how many times it was started
\*   outcome   : per task: none | running | ok | notified_late | failed | aborted
\*   invokeFailed : the tasks whose completion request failed inside
\*               analyzeSignal, which then returned its fallback result
\*   lossSeen  : a task has read the session and found none
NoPool ==
  [nextIndex |-> 0,
   wpc |-> [w \in Workers |-> "off"],
   wtask |-> [w \in Workers |-> 0],
   starts |-> [i \in 1..NumTasks |-> 0],
   outcome |-> [i \in 1..NumTasks |-> "none"],
   invokeFailed |-> {}, lossSeen |-> FALSE]

\* The index a worker moves the shared counter to when it claims a task.
ClaimSkipsOne(n) == n + 2
ClaimNext(n) == n + 1

ClaimFailureEscapes(p, w, live, broken, extractFails) ==
  IF ~(p.nextIndex < NumTasks) THEN [p EXCEPT !.wpc[w] = "done"]
  ELSE LET i == p.nextIndex + 1
           p1 == [p EXCEPT !.nextIndex = @ + 1, !.wtask[w] = i, !.starts[i] = @ + 1]
       IN IF broken
          THEN [p1 EXCEPT !.wpc[w] = "rejected", !.outcome[i] = "aborted"]
          ELSE IF ~live \/ extractFails
          THEN [p1 EXCEPT !.wpc[w] = "rejected", !.outcome[i] = "failed"]
          ELSE [p1 EXCEPT !.wpc[w] = "llm", !.outcome[i] = "running"]
ClaimNoAwait(p, w, live, broken, extractFails) ==
  IF ~(p.nextIndex < NumTasks) THEN [p EXCEPT !.wpc[w] = "done"]
  ELSE LET i == p.nextIndex + 1
           p1 == [p EXCEPT !.nextIndex = @ + 1, !.wtask[w] = i, !.starts[i] = @ + 1]
       IN IF broken
          THEN [p1 EXCEPT !.wpc[w] = "rejected", !.outcome[i] = "aborted"]
          ELSE IF ~live \/ extractFails
          THEN [p1 EXCEPT !.wpc[w] = "loop", !.outcome[i] = "failed"]
          ELSE [p1 EXCEPT !.wpc[w] = "loop", !.outcome[i] = "running"]

\* One pass of runWorker's loop up to its await: test the counter, claim the
\* task, and run the task up to the completion call.  emitSignalStart is
\* outside the task's try (a throwing sink rejects the worker); a lost
\* session or a failing data extraction is caught inside the task.
Claim(p, w, live, broken, extractFails) ==
  IF ~(p.nextIndex < NumTasks) THEN [p EXCEPT !.wpc[w] = "done"]
  ELSE LET i == p.nextIndex + 1
           p1 == [p EXCEPT !.nextIndex = ClaimNext(@), !.wtask[w] = i,
                           !.starts[i] = @ + 1]
       IN IF broken
          THEN [p1 EXCEPT !.wpc[w] = "rejected", !.outcome[i] = "aborted"]
          ELSE IF ~live \/ extractFails
          THEN [p1 EXCEPT !.wpc[w] = "loop", !.outcome[i] = "failed"]
          ELSE [p1 EXCEPT !.wpc[w] = "llm", !.outcome[i] = "running"]

\* Array.from({length}, () => runWorker()): the workers start one after the
\* other, each running up to its first await.
RECURSIVE StartWorkers(_, _, _, _, _)
StartWorkers(p, w, live, broken, ef) ==
  IF w \notin Workers THEN p
  ELSE StartWorkers(Claim(p, w, live, broken, ef[w]), w + 1, live, broken, ef)

\* How analyzeSignal() settles for each behaviour of the completion service:
\* a failing request is answered with the fallback result; only a failure to
\* build the chain (no model configured) rejects.
CompletionBehaviours == {"answers", "request_fails", "no_model"}
analyzeSignal(behaviour) ==
  CASE behaviour = "answers" -> "result"
    [] behaviour = "request_fails" -> "fallback"
    [] behaviour = "no_model" -> "threw"

\* The partial report a task builds from the completion result.
PartialReport(i) ==
  [categoryId |-> getAllSignals[i].categoryId, signalId |-> getAllSignals[i].signal,
   narrative |-> "result"]

\* The partial report a task builds from analyzeSignal's fallback result.
FallbackPartialReport(i) == [PartialReport(i) EXCEPT !.narrative = "fallback"]

\* emitSignalStart for each of the n tasks the starting workers claimed.
RECURSIVE SignalStartEmits(_, _)
SignalStartEmits(g, n) ==
  IF n = 0 THEN g
  ELSE SignalStartEmits(Sink(g, SignalProgress(g.completedSignals, NumTasks)), n - 1)

\* ------------------------------------------------------------------ events
NoEvents == [start |-> 0, complete |-> 0, server_error |-> 0, done |-> 0]

\* ---------------------------------------------------------- RequestThrottle
\* The rate a generator configures when the environment sets none.
DefaultRpm == 8
\* The rates the throttle is exercised with.
Rates == {DefaultRpm, 30, 40000, 60000}

\* The callers of throttle() and the throttle instances.
Callers == 1..2
Throttles == Runs

\* this.minDelayMs = Math.ceil(60000 / requestsPerMinute)
minDelayMsFloor(requestsPerMinute) == 60000 \div requestsPerMinute
minDelayMs(requestsPerMinute) == (60000 + requestsPerMinute - 1) \div requestsPerMinute

\* throttle() up to its await, called at time t on an instance whose
\* lastRequestTime is last: the time at which its timer is due, or t itself
\* when it does not wait.
ThrottleDue(last, t, minDelay) ==
  IF t - last < minDelay THEN t + (minDelay - (t - last)) ELSE t

\* this.lastRequestTime = Date.now(), for a call made at time called that
\* returns at time t.
StampAtCall(called, t) == called
Stamp(called, t) == t

\* What the callers of one throttle instance observed:
\*   returns : number of returns of throttle()
\*   last    : time of the latest return (0 before the first)
\*   minGap  : the smallest time between two consecutive returns (-1: none)
\*   overlapped : a call started while another call was waiting
NoThrottleLog == [returns |-> 0, last |-> 0, minGap |-> -1, overlapped |-> FALSE]

\* A return of throttle() at time t, as the callers observe it.
Returned(log, t) ==
  [log EXCEPT !.returns = @ + 1, !.last = t,
              !.minGap = IF log.returns = 0 THEN @
                         ELSE IF @ = -1 THEN t - log.last
                         ELSE Min(@, t - log.last)]

\* A caller of throttle(): idle | waiting (on its timer, until due), the time
\* of its call, and the number of calls it has made.
NoCall == [pc |-> "idle", due |-> 0, called |-> 0, calls |-> 0]

\* The throttle and the clock before any request.
\* ------------------------------------------------ cache and client requests
\* The requests of collectData() in order: the six fragments, then the
\* standings query for the fallback season.
Endpoint ==
  <<"/fixtures", "/fixtures/statistics", "/injuries", "/fixtures/lineups",
    "/fixtures/headtohead", "/standings", "/standings">>
Requests == 1..Len(Endpoint)

\* The endpoint of every cache key of the model: the keys of the requests of
\* collectData(), the key of the query of the fixtures route, one key for
\* each other endpoint of the TTL table and one for an endpoint the table
\* does not list, then the keys of the two standings queries made for a
\* fixture record whose league carries no id and no season
\* ("league=undefined&season=undefined" and "league=undefined&season=2023").
\* After them come the queries of GET /api/fixtures over a range: one per
\* date (the dates a range may name are consecutive days, numbered), and
\* the one that carries from and to.
NumDates == 4
Dates == 1..NumDates
CachedEndpoints ==
  Endpoint \o <<"/fixtures", "/fixtures/events", "/leagues", "/teams", "/predictions",
               "/timezone", "/standings", "/standings">>
           \o [d \in Dates |-> "/fixtures"] \o <<"/fixtures">>
CacheKeys == 1..Len(CachedEndpoints)
RangeKey == Len(CachedEndpoints)
DateKey(d) == (RangeKey - NumDates - 1) + d
DateKeys == { DateKey(d) : d \in Dates }

\* The keys the calls made on the cache by itself are made on: one per
\* endpoint and more.
KeysUnderTest == 1..(DateKey(1) - 1)

\* A full fixture record whose league.season is 2023, the season of the
\* fallback standings query.  collectData() and the completion calls read
\* from it what they read from any full record; only the key of its
\* standings query differs.
FallbackSeasonRecord == "season2023"
QueryRecords == FixtureRecords \cup {FallbackSeasonRecord}

\* generateKey(endpoint, params) for the request in hand of a collection c:
\* the parameters of the standings queries are read from the fixture record
\* collectData() holds, so a record with an empty league gives them keys of
\* their own, and a record of season 2023 gives the standings query the key
\* of the fallback query.
generateKey(c) ==
  IF c.fixture = "emptyleague" /\ c.k \in Len(Fragments)..Len(Endpoint)
  THEN (DateKey(1) - 1) - (Len(Endpoint) - c.k)
  ELSE IF c.fixture = FallbackSeasonRecord /\ c.k = Len(Fragments)
  THEN Len(Endpoint)
  ELSE c.k

\* The key of the query GET /api/fixtures?date= makes for its date, and the
\* keys of all the queries of the route.
RouteKey == Len(Endpoint) + 1
RouteKeys == {RouteKey, RangeKey} \cup DateKeys

\* ENDPOINT_TTL_CONFIG, in ms.
ENDPOINT_TTL_CONFIG ==
  [e \in {"/fixtures", "/fixtures/statistics", "/fixtures/events", "/fixtures/lineups",
          "/injuries", "/standings", "/fixtures/headtohead", "/leagues", "/teams",
          "/timezone"} |->
     CASE e = "/fixtures" -> Ms(2 * 60 * 1000)
       [] e = "/fixtures/statistics" -> Ms(5 * 60 * 1000)
       [] e = "/fixtures/events" -> Ms(2 * 60 * 1000)
       [] e = "/fixtures/lineups" -> Ms(10 * 60 * 1000)
       [] e = "/injuries" -> Ms(60 * 60 * 1000)
       [] e = "/standings" -> Ms(30 * 60 * 1000)
       [] e = "/fixtures/headtohead" -> Ms(24 * 60 * 60 * 1000)
       [] e = "/leagues" -> Ms(7 * 24 * 60 * 60 * 1000)
       [] e = "/teams" -> Ms(7 * 24 * 60 * 60 * 1000)
       [] e = "/timezone" -> Days(30)]

\* this.defaultTTL
defaultTTL == 60 * 60 * 1000

\* A cache entry; NoEntry stands for a key the map does not hold.
NoEntry == [data |-> "null", expiresAt |-> Ms(0)]
NoCache == [k \in CacheKeys |-> NoEntry]

\* The ttl argument of set() when the caller passes none.
NoTtl == -1

\* The cache operations take the time as days and ms.
\* cache.get at time t returns the data of an entry that has not expired,
\* else null.
cacheGetExpiresEarly(ch, k, t) ==
  IF ch[k] = NoEntry \/ ~After(ch[k].expiresAt, t) THEN "null" ELSE ch[k].data
cacheGet(ch, k, t) ==
  IF ch[k] = NoEntry \/ After(t, ch[k].expiresAt) THEN "null" ELSE ch[k].data

cacheHit(ch, k, t) == cacheGet(ch, k, t) /= "null"

\* The map after cache.get at time t: an expired entry is deleted.
cacheAfterGet(ch, k, t) ==
  IF ch[k] /= NoEntry /\ After(t, ch[k].expiresAt)
  THEN [ch EXCEPT ![k] = NoEntry] ELSE ch

\* ttl || ENDPOINT_TTL_CONFIG[endpoint] || this.defaultTTL
effectiveTTL(endpoint, ttl) ==
  IF ttl /= NoTtl /\ ttl /= 0 THEN Ms(ttl)
  ELSE IF endpoint \in DOMAIN ENDPOINT_TTL_CONFIG /\ ENDPOINT_TTL_CONFIG[endpoint] /= Ms(0)
  THEN ENDPOINT_TTL_CONFIG[endpoint]
  ELSE Ms(defaultTTL)

\* cache.set at time t.
cacheSet(ch, k, data, ttl, t) ==
  [ch EXCEPT ![k] = [data |-> data,
                     expiresAt |-> Plus(t, effectiveTTL(CachedEndpoints[k], ttl))]]

\* cache.cleanup at time t: every expired entry is deleted.
cacheCleanup(ch, t) ==
  [k \in CacheKeys |->
     IF ch[k] /= NoEntry /\ After(t, ch[k].expiresAt) THEN NoEntry ELSE ch[k]]

\* setInterval(() => apiFootballCache.cleanup(), 10 * 60 * 1000), set when the
\* module is loaded: the cache after the clock has gone from one time to a
\* later one, the callbacks that fell due having run (the latest of them
\* deletes whatever the earlier ones did).
cleanupInterval == 600000
cacheAfterTimers(ch, from, to) ==
  IF TimerFired(from, to, cleanupInterval)
  THEN cacheCleanup(ch, LastDue(to, cleanupInterval))
  ELSE ch

\* cache.delete(endpoint, params) and cache.clear().
cacheDelete(ch, k) == [ch EXCEPT ![k] = NoEntry]
cacheClear(ch) == NoCache

\* The latest call made on the cache or on the session store from outside a
\* run:
\*   op, key  : the operation, and the cache key the calls are made on
\*   value    : what the call returned
\*   at       : Date.now() during the call, as days and ms
\*   calls    : number of calls made so far
\*   set      : the latest set() on the key: its time, data and ttl argument
\*   created, deleted : createSession has returned the session id;
\*              deleteSession has been called on it since
NoSet == [at |-> Ms(0), data |-> "null", ttl |-> NoTtl, removed |-> FALSE]
NoApi == [op |-> "none", key |-> 0, value |-> "null", at |-> Ms(0), calls |-> 0,
          set |-> NoSet, created |-> FALSE, deleted |-> FALSE]

\* APIFootballClient: maxRetries and retryDelay (ms).
maxRetries == 3
retryDelay == 1000

\* The answers of the external data system to one network attempt.
\* "ok" is a body with a result list, "empty" one with an empty list and
\* "nolist" one that has no errors and no response list.
Answers ==
  {"ok", "empty", "nolist", "s429", "s429_retry_after", "s401", "s5xx", "s4xx",
   "rate_limit_body", "free_plans_body", "error_body", "network_error"}

\* The fixture query may also be answered with a record that has no teams,
\* teams without a home side, no league, a league without id and season, or
\* no fixture key.
\* A query for a date may be refused for the plan with a message that names
\* the range of dates the plan allows ("... try from X to Y"), and the query
\* that carries from and to may also be refused for lack of another
\* parameter.
AnswersTo(k) ==
  IF k = 1 THEN Answers \cup (QueryRecords \ {"ok"})
  ELSE IF k = RangeKey THEN Answers \cup {"free_plans_range_body", "from_to_body"}
  ELSE IF k \in DateKeys THEN Answers \cup {"free_plans_range_body"}
  ELSE Answers

\* Seconds in the retry-after header of an answer that carries one.
RetryAfterSeconds == 2

RECURSIVE Pow2(_)
Pow2(n) == IF n = 0 THEN 1 ELSE 2 * Pow2(n - 1)

\* request(): whether an answer on the given attempt is retried.
RetriedAlso401(answer, attempt) ==
  /\ attempt < maxRetries
  /\ answer \in {"s429", "s429_retry_after", "s401", "s5xx", "rate_limit_body",
                 "network_error"}
RetriedAnyFailure(answer, attempt) ==
  /\ attempt < maxRetries
  /\ answer \notin {"ok", "empty"}
Retried(answer, attempt) ==
  /\ attempt < maxRetries
  /\ answer \in {"s429", "s429_retry_after", "s5xx", "rate_limit_body", "network_error"}

\* The answers that signal rate limiting.
RateLimitAnswers == {"s429", "s429_retry_after", "rate_limit_body"}

\* The answers request() returns the body of, after caching it.
CacheableAnyBody(answer) ==
  answer \in QueryRecords \cup {"empty", "nolist", "rate_limit_body", "free_plans_body",
                               "error_body"}
Cacheable(answer) == answer \in QueryRecords \cup {"empty", "nolist"}

\* The statusCode of the APIFootballError request() throws for an answer it
\* does not retry (0: undefined).
StatusCode(answer) ==
  CASE answer \in {"s429", "s429_retry_after"} -> 429
    [] answer = "s401" -> 401
    [] answer = "s5xx" -> 503
    [] answer = "s4xx" -> 404
    [] OTHER -> 0

\* request(): the delay before the retry.
RetryWait(answer, attempt) ==
  CASE answer = "s429" -> retryDelay * Pow2(attempt - 1)
    [] answer = "s429_retry_after" -> RetryAfterSeconds * 1000
    [] answer = "rate_limit_body" -> 12000
    [] OTHER -> retryDelay * attempt

\* What the external data system observed:
\*   last, minGap       : time of the latest network request of any run, and
\*                        the smallest time between two consecutive ones
\*   lastBy, minGapBy   : the same per run
\*   unthrottled        : network requests issued without a throttle
\*                        acquisition of their own
\*   hits               : fetches answered from the cache
\*   hitsAfterWait      : fetches answered from the cache after their caller
\*                        had waited on the throttle for them
NoNetLog ==
  [last |-> 0, minGap |-> -1,
   lastBy |-> [r \in Runs |-> 0], minGapBy |-> [r \in Runs |-> -1],
   unthrottled |-> 0, hits |-> 0, hitsAfterWait |-> 0]

Gap(old, last, t) ==
  IF last = 0 THEN old ELSE IF old = -1 THEN t - last ELSE Min(old, t - last)

\* How a request() call ended: with the data (returned = "data") or with an
\* APIFootballError (returned = "error") carrying statusCode and endpoint;
\* the network attempts it made, the answer to the last one, and whether all
\* its answers signalled rate limiting.
NoResult ==
  [k |-> 0, returned |-> "none", statusCode |-> 0, endpoint |-> "", fetches |-> 0,
   lastAnswer |-> "none", allRateLimited |-> FALSE]

\* collectData() of one run, at the level of requests:
\*   pc      : idle | throttle (waiting in throttle()) | inflight | backoff
\*             (waiting before a retry) | done | failed
\*   k       : the request in hand;  attempt : the attempt number
\*   called  : when throttle() was called for this request
\*   due     : when the pending timer is due
\*   acquired: throttle() has returned for this request and no network
\*             request has used the acquisition yet
\*   waited  : throttle() had to wait for this request
\*   stored  : the fragments this run has written to collectedData
\*   fixture : the fixture record collectData() holds: none, or one of
\*             FixtureRecords
\*   fetches : network attempts made for the request in hand
\*   answer  : the answer to the latest of them
\*   allRateLimited : every answer to the request in hand signalled rate
\*             limiting
\*   result  : how the latest request that settled ended (see NoResult)
NoCol ==
  [pc |-> "idle", k |-> 0, attempt |-> 0, called |-> 0, due |-> 0,
   acquired |-> FALSE, waited |-> FALSE, stored |-> {}, fixture |-> "none", fetches |-> 0,
   answer |-> "none", allRateLimited |-> TRUE, result |-> NoResult]

\* A segment of collectData() of run r works on its own position, on the
\* lastRequestTime of the throttle of its generator, on the cache, on the
\* session store and on the log.
NetSeg(r) ==
  [c |-> col[r], last |-> lastRequestTime[r], cache |-> cache, log |-> nlog,
   sessions |-> sessions]

\* fetch(url): a network request of run r leaves at time t (r is 0 for a
\* request that belongs to no run).
Fetch(ns, r, t) ==
  [ns EXCEPT !.c.pc = "inflight", !.c.acquired = FALSE, !.c.fetches = @ + 1,
             !.log.last = t, !.log.minGap = Gap(@, ns.log.last, t),
             !.log.lastBy = IF r \in Runs THEN [@ EXCEPT ![r] = t] ELSE @,
             !.log.minGapBy = IF r \in Runs
                              THEN [@ EXCEPT ![r] = Gap(@, ns.log.lastBy[r], t)] ELSE @,
             !.log.unthrottled = IF ns.c.acquired THEN @ ELSE @ + 1]

\* await this.throttle.throttle() for request k at time t: the caller either
\* goes on at once or waits for its timer.
ThrottleFor(ns, k, t) ==
  LET due == ThrottleDue(ns.last, t, minDelayMs(rpm))
  IN [ns EXCEPT !.c.k = k, !.c.attempt = 1, !.c.called = t, !.c.due = due,
                !.c.waited = due > t, !.c.fetches = 0, !.c.answer = "none",
                !.c.allRateLimited = TRUE,
                !.c.pc = IF due > t THEN "throttle" ELSE "acquired"]

\* request() ends: it returns the data or throws the error for the answer.
Ended(ns, returned, answer) ==
  [ns EXCEPT !.c.result =
     [k |-> generateKey(ns.c), returned |-> returned,
      statusCode |-> IF returned = "error" THEN StatusCode(answer) ELSE 0,
      endpoint |-> CachedEndpoints[generateKey(ns.c)], fetches |-> ns.c.fetches,
      lastAnswer |-> answer, allRateLimited |-> ns.c.allRateLimited]]

\* updateSession(id, { collectedData: { [name]: data } }) as collectData()
\* calls it: the fragment is written to a session that is found; an absent
\* or expired one is left as it is, and an expired entry is deleted.
StoreFragment(ns, name) ==
  [ns EXCEPT !.c.stored = IF getSession(ns.sessions) THEN @ \cup {name} ELSE @,
             !.sessions = deleteExpired(@)]

\* collectData() after request k has settled with data, with no data or
\* with a failure: a fixture query that gave no record is fatal; data is
\* written to collectedData; after the last request the collection is done;
\* else the throttle is called for the next request.  A query of
\* GET /api/fixtures has settled, whatever the outcome: its caller goes on.
Settled(ns, k, outcome, t) ==
  LET s1 == IF outcome = "data" /\ k \notin RouteKeys
            THEN StoreFragment(ns, Fragments[Min(k, Len(Fragments))])
            ELSE ns
  IN IF k \in RouteKeys THEN [ns EXCEPT !.c.pc = "done"]
     ELSE IF k = 1 /\ outcome /= "data" THEN [s1 EXCEPT !.c.pc = "failed"]
     ELSE IF k >= Len(Fragments) THEN [s1 EXCEPT !.c.pc = "done"]
     ELSE ThrottleFor(s1, k + 1, t)

\* collectData() after request() has returned a body for request k.  A
\* fixture query without a record is fatal; a record is stored and the ids
\* of its teams are read, which throws when it has no teams or no home
\* side.  A secondary query whose body has no list succeeded with no data:
\* nothing is stored and no failure is noted.  getStandings() indexes the
\* list, which throws when there is none: the proxy reports a failure that
\* does not name the plan.
Obtained(ns, k, data, t) ==
  IF k \in RouteKeys THEN Settled(ns, k, "data", t)
  ELSE IF k = 1 /\ data \in {"noteams", "nohome"}
  THEN [StoreFragment(ns, Fragments[1]) EXCEPT !.c.fixture = data, !.c.pc = "failed"]
  ELSE IF k = 1 /\ data \in QueryRecords
  THEN Settled([ns EXCEPT !.c.fixture = data], k, "data", t)
  ELSE IF k = 1 THEN Settled(ns, k, "nodata", t)
  ELSE IF data /= "nolist" THEN Settled(ns, k, "data", t)
  ELSE IF k < Len(Fragments) THEN Settled(ns, k, "nodata", t)
  ELSE Settled(ns, k, "error", t)

\* request(endpoint, params, attempt) up to its await: a cache hit returns
\* the cached data, a miss sends the network request.
Request(ns, r, t) ==
  LET k == ns.c.k
      key == generateKey(ns.c)
      s1 == [ns EXCEPT !.cache = cacheAfterGet(@, key, At(t))]
  IN IF cacheHit(ns.cache, key, At(t))
     THEN Obtained(Ended([s1 EXCEPT !.c.acquired = FALSE,
                                    !.log.hits = @ + 1,
                                    !.log.hitsAfterWait =
                                      IF ns.c.waited /\ ns.c.attempt = 1 THEN @ + 1 ELSE @],
                         "data", "none"),
                   k, cacheGet(ns.cache, key, At(t)), t)
     ELSE Fetch(s1, r, t)

\* throttle() stamps the time t and returns, and the request is made; the
\* standings request reads fixture.league first, which throws when the
\* record has none.
Acquire(ns, r, t) ==
  LET s1 == [ns EXCEPT !.last = Stamp(ns.c.called, t), !.c.acquired = TRUE,
                       !.c.pc = "granted"]
  IN IF ns.c.k = Len(Fragments) /\ ns.c.fixture = "noleague"
     THEN [s1 EXCEPT !.c.pc = "failed"]
     ELSE Request(s1, r, t)

\* The steps of collectData() that follow without an await.
Continue(ns, r, t) == IF ns.c.pc = "acquired" THEN Acquire(ns, r, t) ELSE ns

\* The answer to the network attempt in flight arrives at time t: a body
\* without errors is cached and returned; a retried answer starts the delay
\* before the next attempt; any other answer makes request() throw, and the
\* standings request that failed for the plan's seasons is followed by the
\* query for the fallback season.
Answer(ns, r, answer, t) ==
  LET k == ns.c.k
      s0 == [ns EXCEPT !.c.answer = answer,
                       !.c.allRateLimited = @ /\ answer \in RateLimitAnswers]
  IN IF Cacheable(answer)
     THEN Continue(Obtained(Ended([s0 EXCEPT !.cache = cacheSet(@, generateKey(ns.c), answer,
                                                                NoTtl, At(t))],
                                  "data", answer),
                            k, answer, t), r, t)
     ELSE IF Retried(answer, ns.c.attempt)
     THEN [s0 EXCEPT !.c.pc = "backoff", !.c.due = t + RetryWait(answer, ns.c.attempt)]
     ELSE IF k = Len(Fragments) /\ answer = "free_plans_body"
     THEN Request([Ended(s0, "error", answer)
                     EXCEPT !.c.k = k + 1, !.c.attempt = 1, !.c.waited = FALSE,
                            !.c.fetches = 0, !.c.answer = "none",
                            !.c.allRateLimited = TRUE], r, t)
     ELSE Continue(Settled(Ended(s0, "error", answer), k, "error", t), r, t)

\* The state after a segment of collectData() of run r.
NetCommit(r, ns) ==
  /\ col' = [col EXCEPT ![r] = ns.c]
  /\ lastRequestTime' = [lastRequestTime EXCEPT ![r] = ns.last]
  /\ cache' = ns.cache
  /\ nlog' = ns.log
  /\ sessions' = ns.sessions

\* One GET /api/fixtures call over a range of dates:
\*   pc      : idle | range (the query that carries from and to is out) |
\*             dates (a getFixturesForDates() call is awaited) | responded
\*   variant : which branch of the handler the parameters select
\*   asked   : the dates buildDateList() gave for the range asked for
\*   call    : the number of the getFixturesForDates() call awaited
\*   retry   : a PlanRestrictionError of that call is caught and followed
\*             by a call for the range it names
\*   dates, index : per getFixturesForDates() call, its list of dates and
\*             its shared index
\*   slots   : slot 0 is the handler's own query; the others are the
\*             workers, CONCURRENCY per getFixturesForDates() call.  Each
\*             holds the request in hand as collectData() does (see NoCol),
\*             with pc idle | inflight | backoff | done (the query of slot 0
\*             has settled) | returned (worker() has returned) | threw
\*   status  : the status of the response (0: none yet)
CONCURRENCY == 3
Calls == 1..2
RouteSlots == 0..(2 * CONCURRENCY)
CallOf(w) == ((w - 1) \div CONCURRENCY) + 1
NoRoute ==
  [pc |-> "idle", variant |-> "none", asked |-> << >>, call |-> 0, retry |-> FALSE,
   dates |-> [c \in Calls |-> << >>], index |-> [c \in Calls |-> 0],
   slots |-> [w \in RouteSlots |-> NoCol], status |-> 0]
RouteIdle == route = NoRoute

UtilIdle == EnvIdle /\ LlmIdle /\ LimiterIdle /\ RetryIdle /\ RouteIdle

NetIdle ==
  /\ now = Epoch
  /\ day = 0
  /\ ticks = 0
  /\ rpm = DefaultRpm
  /\ lastRequestTime = [i \in Throttles |-> 0]
  /\ thr = [c \in Callers |-> NoCall]
  /\ tlog = [i \in Throttles |-> NoThrottleLog]
  /\ col = [r \in Runs |-> NoCol]
  /\ cache = NoCache
  /\ nlog = NoNetLog
  /\ api = NoApi


\* -------------------------------------------------------------------- Init
Init ==
  /\ UtilIdle
  /\ sessions = {SessionId}
  /\ session = NewSession
  /\ expired = FALSE
  /\ hpc = [r \in Runs |-> "idle"]
  /\ sinkBroken = [r \in Runs |-> FALSE]
  /\ sent = [r \in Runs |-> NoEvents]
  /\ gen = [r \in Runs |-> NoGen]
  /\ pool = [r \in Runs |-> NoPool]
  /\ runsAllowed = 1
  /\ faults = 0
  /\ NetIdle

\* The store and the generate() state of run r after a segment.
Commit(r, st) ==
  /\ session' = st.session
  /\ sessions' = st.sessions
  /\ gen' = [gen EXCEPT ![r] = st.g]

\* ----------------------------------------------------------------- actions
\* GET /api/generate: look the session up; answer at once with server_error
\* when it is absent, else open the stream, send start and call generate().
StartRun(r) ==
  /\ hpc[r] = "idle"
  /\ r <= runsAllowed
  /\ (r > 1 => hpc[r - 1] /= "idle")
  /\ IF ~getSession(sessions)
     THEN /\ sessions' = deleteExpired(sessions)
          /\ sent' = [sent EXCEPT ![r].server_error = @ + 1, ![r].done = @ + 1]
          /\ hpc' = [hpc EXCEPT ![r] = "closed"]
          /\ UNCHANGED <<session, gen>>
     ELSE /\ sent' = [sent EXCEPT ![r].start = @ + 1]
          /\ hpc' = [hpc EXCEPT ![r] = "running"]
          /\ Commit(r, GenerateStart(Seg(NoGen), sinkBroken[r]))
  /\ UNCHANGED <<expired, sinkBroken, pool, runsAllowed, faults>>
  /\ UNCHANGED netVars
  /\ UNCHANGED utilVars

\* A fragment fetch returns.
FetchReturn(r) ==
  /\ gen[r].pc = "fetch"
  /\ \E o \in OutcomesFor(gen[r]) :
       /\ Inject(o /= "ok")
       /\ Commit(r, CollectStep(Seg(gen[r]), gen[r].frag, o, sinkBroken[r]))
  /\ UNCHANGED <<expired, hpc, sinkBroken, sent, pool, runsAllowed>>
  /\ UNCHANGED netVars
  /\ UNCHANGED utilVars

\* generateSignals() starts and its workers claim their first tasks.
StartSignals(r) ==
  /\ gen[r].pc = "s2"
  /\ LET st == SignalsStart(Seg(gen[r]))
     IN IF st.g.pc = "signals"
        THEN \E ef \in [Workers -> BOOLEAN] :
               LET p == StartWorkers([NoPool EXCEPT !.wpc = [w \in Workers |-> "loop"]],
                                     1, TRUE, sinkBroken[r],
                                     [w \in Workers |-> ef[w] \/ ArgsThrow(st.session)])
               IN /\ ArgsThrow(st.session) => \A w \in Workers : ~ef[w]
                  /\ Cardinality({w \in Workers : ef[w]}) <= MaxFaults - faults
                  /\ faults' = faults + Cardinality({w \in Workers : ef[w]})
                  /\ pool' = [pool EXCEPT ![r] = p]
                  /\ Commit(r, IF sinkBroken[r] THEN st
                               ELSE [st EXCEPT !.g = SignalStartEmits(@, p.nextIndex)])
        ELSE /\ Commit(r, st)
             /\ UNCHANGED <<pool, faults>>
  /\ UNCHANGED <<expired, hpc, sinkBroken, sent, runsAllowed>>
  /\ UNCHANGED netVars
  /\ UNCHANGED utilVars

\* A worker resumes after a task that ended without a completion call.
WorkerClaim(r, w) ==
  /\ pool[r].wpc[w] = "loop"
  /\ \E ef \in BOOLEAN :
       /\ Inject(ef)
       /\ ef => pool[r].nextIndex < NumTasks /\ ~sinkBroken[r] /\ getSession(sessions)
       /\ ef => ~ArgsThrow(session)
       /\ pool' = [pool EXCEPT ![r] =
            [Claim(@, w, getSession(sessions) /\ "fixture" \in session.collectedData,
                   sinkBroken[r], ef \/ ArgsThrow(session))
               EXCEPT !.lossSeen = @ \/ (/\ pool[r].nextIndex < NumTasks
                                         /\ ~sinkBroken[r]
                                         /\ ~getSession(sessions))]]
  /\ sessions' = IF pool[r].nextIndex < NumTasks /\ ~sinkBroken[r]
                 THEN deleteExpired(sessions) ELSE sessions
  /\ gen' = IF pool[r].nextIndex < NumTasks /\ ~sinkBroken[r]
            THEN [gen EXCEPT ![r] = SignalStartEmits(@, 1)] ELSE gen
  /\ UNCHANGED <<session, expired, hpc, sinkBroken, sent, runsAllowed>>
  /\ UNCHANGED netVars
  /\ UNCHANGED utilVars

\* analyzeSignal() of a worker's task settles: with a result the task writes
\* its partial report, and emitSignalComplete counts the signal and notifies
\* (a throwing sink is caught here); a rejection is caught and logged.
WorkerReturn(r, w) ==
  /\ pool[r].wpc[w] = "llm"
  /\ \E b \in CompletionBehaviours :
       LET i == pool[r].wtask[w]
           res == analyzeSignal(b)
           report == IF res = "fallback" THEN FallbackPartialReport(i)
                     ELSE PartialReport(i)
           s1 == updateSession(Seg(gen[r]), [NoUpdate EXCEPT
                   !.partialReport = <<TaskKey(i), report>>])
           s2 == [s1 EXCEPT !.g.completedSignals = @ + 1]
           s3 == IF sinkBroken[r] THEN s2
                 ELSE Deliver(s2, SignalProgress(s2.g.completedSignals, NumTasks))
           st == IF res = "threw" THEN Seg(gen[r]) ELSE s3
       IN /\ Inject(b /= "answers")
          /\ Commit(r, st)
          /\ pool' = [pool EXCEPT ![r].wpc[w] = "loop",
                        ![r].outcome[i] = IF res = "threw" THEN "failed"
                                          ELSE IF sinkBroken[r] THEN "notified_late"
                                          ELSE "ok",
                        ![r].invokeFailed = IF res = "fallback" THEN @ \cup {i} ELSE @]
  /\ UNCHANGED <<expired, hpc, sinkBroken, sent, runsAllowed>>
  /\ UNCHANGED netVars
  /\ UNCHANGED utilVars

\* Promise.all(workers) settles: it rejects as soon as one worker has
\* rejected, and resolves when every worker has drained the queue.
AnySettled(p) == \E w \in Workers : p.wpc[w] = "done"
AllSettled(p) == \A w \in Workers : p.wpc[w] = "done"
SignalsSettle(r) ==
  /\ gen[r].pc = "signals"
  /\ IF \E w \in Workers : pool[r].wpc[w] = "rejected"
     THEN Commit(r, Catch(Seg(gen[r]), MsgSink))
     ELSE /\ AllSettled(pool[r])
          /\ Commit(r, [Seg(gen[r]) EXCEPT !.g.pc = "s3"])
  /\ UNCHANGED <<expired, hpc, sinkBroken, sent, pool, runsAllowed, faults>>
  /\ UNCHANGED netVars
  /\ UNCHANGED utilVars

\* mergeCategories() starts.
StartMerge(r) ==
  /\ gen[r].pc = "s3"
  /\ Commit(r, MergeStart(Seg(gen[r]), sinkBroken[r]))
  /\ UNCHANGED <<expired, hpc, sinkBroken, sent, pool, runsAllowed, faults>>
  /\ UNCHANGED netVars
  /\ UNCHANGED utilVars

\* A merge call returns.
MergeReturn(r) ==
  /\ gen[r].pc = "merge"
  /\ \E ok \in BOOLEAN :
       /\ Inject(~ok)
       /\ Commit(r, MergeStep(Seg(gen[r]), ok, sinkBroken[r]))
  /\ UNCHANGED <<expired, hpc, sinkBroken, sent, pool, runsAllowed>>
  /\ UNCHANGED netVars
  /\ UNCHANGED utilVars

\* synthesizeFinal() starts; a model may not be configured when
\* synthesizeFinalReport() is reached.
StartFinal(r) ==
  /\ gen[r].pc = "s4"
  /\ \E noModel \in BOOLEAN :
       /\ Inject(noModel)
       /\ noModel => FinalStart(Seg(gen[r]), sinkBroken[r], FALSE).g.pc = "final"
       /\ Commit(r, FinalStart(Seg(gen[r]), sinkBroken[r], noModel))
  /\ UNCHANGED <<expired, hpc, sinkBroken, sent, pool, runsAllowed>>
  /\ UNCHANGED netVars
  /\ UNCHANGED utilVars

\* The completion request of the final synthesis returns.
FinalReturn(r) ==
  /\ gen[r].pc = "final"
  /\ \E ok \in BOOLEAN :
       /\ Inject(~ok)
       /\ Commit(r, FinalStep(Seg(gen[r]), ok, sinkBroken[r]))
  /\ UNCHANGED <<expired, hpc, sinkBroken, sent, pool, runsAllowed>>
  /\ UNCHANGED netVars
  /\ UNCHANGED utilVars

\* The events the handler delivers once generateReport() has settled:
\* complete and done when it resolved and the session holds a report, else
\* server_error; nothing at all once the sink throws.
TerminalCompleteUnchecked(ev, resolved, found, broken) ==
  IF broken THEN ev
  ELSE IF resolved /\ found
  THEN [ev EXCEPT !.complete = @ + 1, !.done = @ + 1]
  ELSE IF resolved
  THEN [ev EXCEPT !.complete = @ + 1, !.server_error = @ + 1]
  ELSE [ev EXCEPT !.server_error = @ + 1]
TerminalSilentWithoutReport(ev, resolved, found, broken) ==
  IF broken THEN ev
  ELSE IF resolved /\ found
  THEN [ev EXCEPT !.complete = @ + 1, !.done = @ + 1]
  ELSE IF resolved THEN ev
  ELSE [ev EXCEPT !.server_error = @ + 1]
Terminal(ev, resolved, found, broken) ==
  IF broken THEN ev
  ELSE IF resolved /\ found
  THEN [ev EXCEPT !.complete = @ + 1, !.done = @ + 1]
  ELSE [ev EXCEPT !.server_error = @ + 1]

\* The stream handler after generateReport() settled; the stream is closed.
HandlerFinish(r) ==
  /\ hpc[r] = "running"
  /\ gen[r].pc \in {"resolved", "rejected"}
  /\ sent' = [sent EXCEPT ![r] =
       Terminal(@, gen[r].pc = "resolved",
                getSession(sessions) /\ session.finalReport /= "null",
                sinkBroken[r])]
  /\ sessions' = IF gen[r].pc = "resolved" THEN deleteExpired(sessions) ELSE sessions
  /\ hpc' = [hpc EXCEPT ![r] = "closed"]
  /\ UNCHANGED <<session, expired, sinkBroken, gen, pool, runsAllowed, faults>>
  /\ UNCHANGED netVars
  /\ UNCHANGED utilVars

\* Time passes the session's TTL.
Expire ==
  /\ ~expired
  /\ expired' = TRUE
  /\ UNCHANGED <<sessions, session, hpc, sinkBroken, sent, gen, pool, runsAllowed, faults>>
  /\ UNCHANGED netVars
  /\ UNCHANGED utilVars

\* setInterval(() => sessionManager.cleanupExpiredSessions(), 30 * 60 * 1000):
\* the clock reaches the next run of the store's cleanup after the session
\* has expired, and the entry is deleted from the map.
CleanupTimer ==
  /\ expired
  /\ SessionId \in sessions
  /\ sessions' = sessions \ {SessionId}
  /\ UNCHANGED <<session, expired, hpc, sinkBroken, sent, gen, pool, runsAllowed, faults>>
  /\ UNCHANGED netVars
  /\ UNCHANGED utilVars

\* The run is suspended on an external call (other events can be handled).
Suspended(r) ==
  \/ gen[r].pc \in {"fetch", "merge", "final"}
  \/ \E w \in Workers : pool[r].wpc[w] = "llm"

\* The caller abandons the stream: from now on controller.enqueue throws.
SinkBreak(r) ==
  /\ hpc[r] = "running"
  /\ ~sinkBroken[r]
  /\ Suspended(r)
  /\ sinkBroken' = [sinkBroken EXCEPT ![r] = TRUE]
  /\ UNCHANGED <<sessions, session, expired, hpc, sent, gen, pool, runsAllowed, faults>>
  /\ UNCHANGED netVars
  /\ UNCHANGED utilVars

\* The steps of run r that the runtime takes by itself.
RunStep(r) ==
  \/ FetchReturn(r)
  \/ StartSignals(r)
  \/ \E w \in Workers : WorkerClaim(r, w)
  \/ \E w \in Workers : WorkerReturn(r, w)
  \/ SignalsSettle(r)
  \/ StartMerge(r)
  \/ MergeReturn(r)
  \/ StartFinal(r)
  \/ FinalReturn(r)
  \/ HandlerFinish(r)

Next ==
  \/ \E r \in Runs : StartRun(r)
  \/ \E r \in Runs : RunStep(r)
  \/ \E r \in Runs : SinkBreak(r)
  \/ Expire
  \/ CleanupTimer

Spec == Init /\ [][Next]_vars

\* A second connection may be opened on the same session id at any time; here
\* the environment injects no failure, the session does not expire and the
\* callers stay connected.
InitRerun ==
  /\ UtilIdle
  /\ sessions = {SessionId}
  /\ session = NewSession
  /\ expired = FALSE
  /\ hpc = [r \in Runs |-> "idle"]
  /\ sinkBroken = [r \in Runs |-> FALSE]
  /\ sent = [r \in Runs |-> NoEvents]
  /\ gen = [r \in Runs |-> NoGen]
  /\ pool = [r \in Runs |-> NoPool]
  /\ runsAllowed = 2
  /\ faults = MaxFaults
  /\ NetIdle

NextRerun ==
  \/ \E r \in Runs : StartRun(r)
  \/ \E r \in Runs : RunStep(r)

SpecRerun == InitRerun /\ [][NextRerun]_vars

\* A request may be repeated on the same session id, after the earlier run
\* has ended or while it is in progress, and one external call may fail; the
\* session does not expire and the callers stay connected.
InitRepeat ==
  /\ UtilIdle
  /\ sessions = {SessionId}
  /\ session = NewSession
  /\ expired = FALSE
  /\ hpc = [r \in Runs |-> "idle"]
  /\ sinkBroken = [r \in Runs |-> FALSE]
  /\ sent = [r \in Runs |-> NoEvents]
  /\ gen = [r \in Runs |-> NoGen]
  /\ pool = [r \in Runs |-> NoPool]
  /\ runsAllowed = 2
  /\ faults = MaxFaults - 1
  /\ NetIdle

SpecRepeat == InitRepeat /\ [][NextRerun]_vars

\* Every external call eventually returns or fails, and the runtime runs
\* every continuation that is ready.
\* The liveness specification lets the environment inject one failure.
InitFair ==
  /\ UtilIdle
  /\ sessions = {SessionId}
  /\ session = NewSession
  /\ expired = FALSE
  /\ hpc = [r \in Runs |-> "idle"]
  /\ sinkBroken = [r \in Runs |-> FALSE]
  /\ sent = [r \in Runs |-> NoEvents]
  /\ gen = [r \in Runs |-> NoGen]
  /\ pool = [r \in Runs |-> NoPool]
  /\ runsAllowed = 1
  /\ faults = MaxFaults - 1
  /\ NetIdle

FairSpec == InitFair /\ [][Next]_vars /\ \A r \in Runs : WF_vars(RunStep(r))

\* ------------------------------------------------- throttle() under callers
\* The callers of this specification share one RequestThrottle instance.
SharedThrottle == 1

\* throttle() is called: without a wait it stamps the time and returns at
\* once, else the caller sleeps on its timer.
ThrottleCall(c) ==
  /\ thr[c].pc = "idle"
  /\ thr[c].calls < MaxCalls
  /\ LET i == SharedThrottle
         due == ThrottleDue(lastRequestTime[i], now, minDelayMs(rpm))
         racing == \E d \in Callers : d /= c /\ thr[d].pc = "waiting"
     IN IF due > now
        THEN /\ thr' = [thr EXCEPT ![c] = [pc |-> "waiting", due |-> due,
                                           called |-> now, calls |-> @.calls + 1]]
             /\ tlog' = [tlog EXCEPT ![i].overlapped = @ \/ racing]
             /\ UNCHANGED lastRequestTime
        ELSE /\ thr' = [thr EXCEPT ![c].calls = @ + 1, ![c].called = now]
             /\ lastRequestTime' = [lastRequestTime EXCEPT ![i] = Stamp(now, now)]
             /\ tlog' = [tlog EXCEPT ![i] =
                  Returned([@ EXCEPT !.overlapped = @ \/ racing], now)]
  /\ UNCHANGED <<now, day, ticks, rpm, faults, col, cache, nlog, api>>
  /\ UNCHANGED pipeVars
  /\ UNCHANGED utilVars

\* The timer of a waiting caller has fired: throttle() stamps the time and
\* returns.
ThrottleWake(c) ==
  /\ thr[c].pc = "waiting"
  /\ now >= thr[c].due
  /\ thr' = [thr EXCEPT ![c].pc = "idle"]
  /\ lastRequestTime' = [lastRequestTime EXCEPT
       ![SharedThrottle] = Stamp(thr[c].called, now)]
  /\ tlog' = [tlog EXCEPT ![SharedThrottle] = Returned(@, now)]
  /\ UNCHANGED <<now, day, ticks, rpm, faults, col, cache, nlog, api>>
  /\ UNCHANGED pipeVars
  /\ UNCHANGED utilVars

\* The timers that are pending: of the callers of throttle(), of the
\* throttle() calls and of the backoffs of collectData().
PendingTimers ==
  { thr[c].due : c \in { d \in Callers : thr[d].pc = "waiting" /\ thr[d].due > now } }
    \cup { col[r].due : r \in { q \in Runs : col[q].pc \in {"throttle", "backoff"}
                                              /\ col[q].due > now } }
    \cup { route.slots[w].due : w \in { v \in RouteSlots : route.slots[v].pc = "backoff"
                                                           /\ route.slots[v].due > now } }

\* Something outside the program may happen at any time: a caller may call
\* throttle(), a run may start, an answer may arrive.
Awaited ==
  \/ \A r \in Runs : col[r].pc = "idle"
  \/ \E r \in Runs : col[r].pc = "inflight"
  \/ \E w \in RouteSlots : route.slots[w].pc = "inflight"

\* The times the clock is observed at next: a millisecond later while
\* something is awaited from outside, or when the next pending timer is due,
\* or a minimum delay later when none is pending.
NextTimes ==
  (IF Awaited THEN {now + 1} ELSE {}) \cup
    IF PendingTimers = {}
    THEN {now + minDelayMs(rpm)}
    ELSE { t \in PendingTimers : \A u \in PendingTimers : t <= u }

Tick ==
  /\ ticks < MaxTicks
  /\ \E t \in NextTimes :
       /\ now' = t
       /\ expired' = sessionExpiredAt(session, At(t))
       /\ cache' = cacheAfterTimers(cache, Clock, At(t))
       /\ sessions' = sessionsAfterTimers(sessions, session, Clock, At(t))
  /\ ticks' = ticks + 1
  /\ UNCHANGED <<session, hpc, sinkBroken, sent, gen, pool, runsAllowed>>
  /\ UNCHANGED <<day, rpm, lastRequestTime, thr, tlog, faults, col, nlog, api>>
  /\ UNCHANGED utilVars

InitThrottle ==
  /\ UtilIdle
  /\ sessions = {SessionId}
  /\ session = NewSession
  /\ expired = FALSE
  /\ hpc = [r \in Runs |-> "idle"]
  /\ sinkBroken = [r \in Runs |-> FALSE]
  /\ sent = [r \in Runs |-> NoEvents]
  /\ gen = [r \in Runs |-> NoGen]
  /\ pool = [r \in Runs |-> NoPool]
  /\ runsAllowed = 0
  /\ faults = 0
  /\ now = Epoch
  /\ day = 0
  /\ ticks = 0
  /\ rpm \in Rates
  /\ lastRequestTime = [i \in Throttles |-> 0]
  /\ thr = [c \in Callers |-> NoCall]
  /\ tlog = [i \in Throttles |-> NoThrottleLog]
  /\ col = [r \in Runs |-> NoCol]
  /\ cache = NoCache
  /\ nlog = NoNetLog
  /\ api = NoApi

NextThrottle ==
  \/ \E c \in Callers : ThrottleCall(c)
  \/ \E c \in Callers : ThrottleWake(c)
  \/ Tick

SpecThrottle == InitThrottle /\ [][NextThrottle]_vars
\* ------------------------------------------- collectData() and its requests
\* collectData() starts for run r (the generator has built its throttle);
\* the runs are numbered in the order they start.
CollectBegin(r) ==
  /\ col[r].pc = "idle"
  /\ r <= runsAllowed
  /\ r > 1 => col[r - 1].pc /= "idle"
  /\ NetCommit(r, Continue(ThrottleFor(NetSeg(r), 1, now), r, now))
  /\ UNCHANGED <<now, day, ticks, rpm, thr, tlog, faults, api>>
  /\ UNCHANGED <<session, expired, hpc, sinkBroken, sent, gen, pool, runsAllowed>>
  /\ UNCHANGED utilVars

\* The timer of throttle() has fired for run r.
ThrottleFire(r) ==
  /\ col[r].pc = "throttle"
  /\ now >= col[r].due
  /\ NetCommit(r, Acquire(NetSeg(r), r, now))
  /\ UNCHANGED <<now, day, ticks, rpm, thr, tlog, faults, api>>
  /\ UNCHANGED <<session, expired, hpc, sinkBroken, sent, gen, pool, runsAllowed>>
  /\ UNCHANGED utilVars

\* The external data system answers the request of client r.  The failures
\* of the requests of a run count against the environment's budget; those of
\* the request of the fixtures route do not: the client alone bounds its
\* attempts.
Respond(r) ==
  /\ col[r].pc = "inflight"
  /\ \E a \in AnswersTo(col[r].k) :
       /\ IF col[r].k = RouteKey THEN UNCHANGED faults ELSE Inject(a /= "ok")
       /\ NetCommit(r, Answer(NetSeg(r), r, a, now))
  /\ UNCHANGED <<now, day, ticks, rpm, thr, tlog, api>>
  /\ UNCHANGED <<session, expired, hpc, sinkBroken, sent, gen, pool, runsAllowed>>
  /\ UNCHANGED utilVars

\* The backoff timer has fired: request() is called for the next attempt.
RetryFire(r) ==
  /\ col[r].pc = "backoff"
  /\ now >= col[r].due
  /\ NetCommit(r, Continue(Request([NetSeg(r) EXCEPT !.c.attempt = @ + 1], r, now), r, now))
  /\ UNCHANGED <<now, day, ticks, rpm, thr, tlog, faults, api>>
  /\ UNCHANGED <<session, expired, hpc, sinkBroken, sent, gen, pool, runsAllowed>>
  /\ UNCHANGED utilVars

\* Requests answered for earlier runs may already be in the cache.
InitiallyCached == {{}, {2}, {Len(Endpoint)}}

\* A run starts with the session just created, or shortly before the session
\* expires.
StartTimes == {Epoch, Epoch + SESSION_TTL - 10}

\* One run against an external data system that may fail.
InitNet ==
  /\ UtilIdle
  /\ sessions = {SessionId}
  /\ session = NewSession
  /\ expired = FALSE
  /\ hpc = [r \in Runs |-> "idle"]
  /\ sinkBroken = [r \in Runs |-> FALSE]
  /\ sent = [r \in Runs |-> NoEvents]
  /\ gen = [r \in Runs |-> NoGen]
  /\ pool = [r \in Runs |-> NoPool]
  /\ runsAllowed = 1
  /\ faults = 0
  /\ now \in StartTimes
  /\ day = 0
  /\ ticks = 0
  /\ rpm = DefaultRpm
  /\ lastRequestTime = [i \in Throttles |-> 0]
  /\ thr = [c \in Callers |-> NoCall]
  /\ tlog = [i \in Throttles |-> NoThrottleLog]
  /\ col = [r \in Runs |-> NoCol]
  /\ \E ks \in InitiallyCached :
       /\ now /= Epoch => ks = {}
       /\ cache = [k \in CacheKeys |->
                    IF k \in ks THEN cacheSet(NoCache, k, "ok", NoTtl, Ms(Epoch))[k]
                    ELSE NoEntry]
  /\ nlog = NoNetLog
  /\ api = NoApi

NextNet ==
  \/ \E r \in Runs : CollectBegin(r)
  \/ \E r \in Runs : ThrottleFire(r)
  \/ \E r \in Runs : Respond(r)
  \/ \E r \in Runs : RetryFire(r)
  \/ Tick

SpecNet == InitNet /\ [][NextNet]_vars

\* The runs of several sessions at once, against an external data system
\* that answers every request.
InitRuns ==
  /\ UtilIdle
  /\ sessions = {SessionId}
  /\ session = NewSession
  /\ expired = FALSE
  /\ hpc = [r \in Runs |-> "idle"]
  /\ sinkBroken = [r \in Runs |-> FALSE]
  /\ sent = [r \in Runs |-> NoEvents]
  /\ gen = [r \in Runs |-> NoGen]
  /\ pool = [r \in Runs |-> NoPool]
  /\ runsAllowed = MaxRuns
  /\ faults = MaxFaults
  /\ now = Epoch
  /\ day = 0
  /\ ticks = 0
  /\ rpm = DefaultRpm
  /\ lastRequestTime = [i \in Throttles |-> 0]
  /\ thr = [c \in Callers |-> NoCall]
  /\ tlog = [i \in Throttles |-> NoThrottleLog]
  /\ col = [r \in Runs |-> NoCol]
  /\ cache = NoCache
  /\ nlog = NoNetLog
  /\ api = NoApi

NextRuns ==
  \/ \E r \in Runs : CollectBegin(r)
  \/ \E r \in Runs : ThrottleFire(r)
  \/ \E r \in Runs : Respond(r)
  \/ Tick

SpecRuns == InitRuns /\ [][NextRuns]_vars

\* ------------------------------------------------------ the fixtures route
\* GET /api/fixtures?date=YYYY-MM-DD, the branch of the handler for an
\* explicit single date: the handler of request r makes one query for the
\* fixtures of the date through the proxy, with no throttle, and answers with
\* its result or with its error.
RouteRequest(r) ==
  /\ col[r].pc = "idle"
  /\ r <= runsAllowed
  /\ r > 1 => col[r - 1].pc /= "idle"
  /\ NetCommit(r, Request([NetSeg(r) EXCEPT !.c.k = RouteKey, !.c.attempt = 1,
                                            !.c.called = now], r, now))
  /\ UNCHANGED <<now, day, ticks, rpm, thr, tlog, faults, api>>
  /\ UNCHANGED <<session, expired, hpc, sinkBroken, sent, gen, pool, runsAllowed>>
  /\ UNCHANGED utilVars

\* One request of the route; the query may have been answered before.
InitRoute ==
  /\ UtilIdle
  /\ sessions = {}
  /\ session = NewSession
  /\ expired = FALSE
  /\ hpc = [r \in Runs |-> "idle"]
  /\ sinkBroken = [r \in Runs |-> FALSE]
  /\ sent = [r \in Runs |-> NoEvents]
  /\ gen = [r \in Runs |-> NoGen]
  /\ pool = [r \in Runs |-> NoPool]
  /\ runsAllowed = 1
  /\ faults = 0
  /\ now = Epoch
  /\ day = 0
  /\ ticks = 0
  /\ rpm = DefaultRpm
  /\ lastRequestTime = [i \in Throttles |-> 0]
  /\ thr = [c \in Callers |-> NoCall]
  /\ tlog = [i \in Throttles |-> NoThrottleLog]
  /\ col = [r \in Runs |-> NoCol]
  /\ cache \in {NoCache, cacheSet(NoCache, RouteKey, "ok", NoTtl, Ms(Epoch))}
  /\ nlog = NoNetLog
  /\ api = NoApi

NextRoute ==
  \/ \E r \in Runs : RouteRequest(r)
  \/ \E r \in Runs : Respond(r)
  \/ \E r \in Runs : RetryFire(r)
  \/ Tick

SpecRoute == InitRoute /\ [][NextRoute]_vars

\* ---------------------------------------- the fixtures route over a range
\* buildDateList(from, to, maxDays): the dates from..to, or none (it throws)
\* when a parameter is malformed (a from of 0 stands for that), when from is
\* after to, or when the range is longer than maxDays.
MAX_DATE_RANGE_DAYS == 30
buildDateList(from, to, maxDays) ==
  IF from = 0 \/ from > to \/ (to - from) + 1 > maxDays
  THEN << >>
  ELSE [i \in 1..((to - from) + 1) |-> (from + i) - 1]

\* yesterday, today and tomorrow: the dates the handler asks for by default,
\* and the range the data system names when it refuses a date for the plan.
DefaultDates == <<2, 3, 4>>
AllowedRange == [from |-> 2, to |-> 4]

\* The from and to parameters a call is made with.
Froms == {0, 1, 2}
Tos == {1, NumDates}

\* The branches of GET /api/fixtures without a date parameter: from and to
\* given or not, with or without a league, season or team.
RouteVariants == {"range", "range_constrained", "default", "default_constrained"}

\* A segment of the handler works on the call, on the cache and on the log;
\* a query of slot w is a request() call of no run and of no throttle.
RouteSeg == [route |-> route, cache |-> cache, log |-> nlog]
SlotSeg(rs, w) ==
  [c |-> rs.route.slots[w], last |-> 0, cache |-> rs.cache, log |-> rs.log,
   sessions |-> sessions]
PutSlot(rs, w, ns) ==
  [rs EXCEPT !.route.slots[w] = ns.c, !.cache = ns.cache, !.log = ns.log]

\* NextResponse.json(..., { status })
Responded(rs, status) == [rs EXCEPT !.route.pc = "responded", !.route.status = status]

\* worker(): the test of its loop and one turn up to the await.  The worker
\* takes the next date and queries it, or returns when none is left.
WorkerLoop(rs, w, t) ==
  LET c == CallOf(w)
      i == rs.route.index[c]
  IN IF i < Len(rs.route.dates[c])
     THEN PutSlot([rs EXCEPT !.route.index[c] = i + 1], w,
                  Request([SlotSeg(rs, w) EXCEPT !.c.k = DateKey(rs.route.dates[c][i + 1]),
                                                 !.c.attempt = 1, !.c.called = t,
                                                 !.c.fetches = 0, !.c.answer = "none",
                                                 !.c.allRateLimited = TRUE], 0, t))
     ELSE [rs EXCEPT !.route.slots[w].pc = "returned"]

\* The workers whose query has returned data go on in the order they were
\* resumed in; a worker whose query is answered from the cache is resumed
\* after those already waiting.
RECURSIVE Drain(_, _, _)
Drain(rs, queue, t) ==
  IF queue = << >> THEN rs
  ELSE LET w == Head(queue)
           s1 == WorkerLoop(rs, w, t)
       IN Drain(s1, IF s1.route.slots[w].pc = "done" THEN Tail(queue) \o <<w>>
                    ELSE Tail(queue), t)

\* The workers getFixturesForDates() call c starts for n dates.
WorkersOf(c, n) == [i \in 1..Min(CONCURRENCY, n) |-> ((c - 1) * CONCURRENCY) + i]

\* Promise.all(...) of the call awaited resolves when every worker started
\* has returned: the handler answers with the fixtures.
Completed(rs) ==
  IF /\ rs.route.pc = "dates"
     /\ \A i \in 1..Min(CONCURRENCY, Len(rs.route.dates[rs.route.call])) :
          rs.route.slots[WorkersOf(rs.route.call, CONCURRENCY)[i]].pc = "returned"
  THEN Responded(rs, 200)
  ELSE rs

\* getFixturesForDates(dates, baseParams) is called as call c and awaited.
getFixturesForDates(rs, c, dates, caught, t) ==
  Completed(Drain([rs EXCEPT !.route.pc = "dates", !.route.call = c, !.route.retry = caught,
                             !.route.dates[c] = dates, !.route.index[c] = 0],
                  WorkersOf(c, Len(dates)), t))

\* The query of worker w has failed and the worker throws.  The first
\* rejection settles Promise.all: a PlanRestrictionError of a call made
\* inside the try is followed by a call for the range the error names; any
\* other error, and any error of a later call, reaches the handler's outer
\* catch.  Rejections after the first are not observed.
Thrown(rs, w, t) ==
  LET s1 == [rs EXCEPT !.route.slots[w].pc = "threw"]
      plan == rs.route.slots[w].result.lastAnswer = "free_plans_range_body"
  IN IF ~(rs.route.pc = "dates" /\ CallOf(w) = rs.route.call) THEN s1
     ELSE IF rs.route.retry /\ plan
     THEN getFixturesForDates(s1, rs.route.call + 1,
                              buildDateList(AllowedRange.from, AllowedRange.to,
                                            MAX_DATE_RANGE_DAYS), FALSE, t)
     ELSE Responded(s1, 500)

\* The status of the response for a failed query of the handler's own.
ErrorStatus(statusCode) == IF statusCode \in {429, 401} THEN statusCode ELSE 500

\* The query that carries from and to has settled: its data is the
\* response; a refusal for lack of another parameter is followed by the
\* queries per date, a refusal for the plan by those of the range it names;
\* any other failure is the response.
RangeSettled(rs, t) ==
  LET res == rs.route.slots[0].result
  IN IF res.returned = "data" THEN Responded(rs, 200)
     ELSE IF res.lastAnswer = "from_to_body"
     THEN getFixturesForDates(rs, 1, rs.route.asked, TRUE, t)
     ELSE IF res.lastAnswer = "free_plans_range_body"
     THEN getFixturesForDates(rs, 1, buildDateList(AllowedRange.from, AllowedRange.to,
                                                    MAX_DATE_RANGE_DAYS), FALSE, t)
     ELSE Responded(rs, ErrorStatus(res.statusCode))

\* What follows when the request of slot w has gone on: nothing while it is
\* out or waits for a retry; else its caller is resumed.
Resumed(rs, w, t) ==
  IF rs.route.slots[w].pc /= "done" THEN rs
  ELSE IF w = 0 THEN RangeSettled(rs, t)
  ELSE IF rs.route.slots[w].result.returned = "error" THEN Thrown(rs, w, t)
  ELSE Completed(Drain(rs, <<w>>, t))

\* The state after a segment of the handler.
RouteCommit(rs) ==
  /\ route' = rs.route
  /\ cache' = rs.cache
  /\ nlog' = rs.log

\* GET /api/fixtures without a date parameter is called.  A range that
\* buildDateList() rejects is answered with 500; with a league, season or
\* team the handler sends the one query that carries from and to; without,
\* it queries the dates one by one.
RouteCall ==
  /\ route.pc = "idle"
  /\ \E variant \in RouteVariants, from \in Froms, to \in Tos :
       LET default == variant \in {"default", "default_constrained"}
           asked == IF default THEN DefaultDates
                    ELSE buildDateList(from, to, MAX_DATE_RANGE_DAYS)
           rs == [RouteSeg EXCEPT !.route.variant = variant, !.route.asked = asked]
       IN /\ default => from = DefaultDates[1] /\ to = DefaultDates[Len(DefaultDates)]
          /\ RouteCommit(
               IF asked = << >> THEN Responded(rs, 500)
               ELSE IF variant \in {"range_constrained", "default_constrained"}
               THEN Resumed(PutSlot([rs EXCEPT !.route.pc = "range"], 0,
                                    Request([SlotSeg(rs, 0) EXCEPT !.c.k = RangeKey,
                                                                   !.c.attempt = 1,
                                                                   !.c.called = now], 0, now)),
                            0, now)
               ELSE getFixturesForDates(rs, 1, asked, TRUE, now))
  /\ UNCHANGED <<now, day, ticks, rpm, lastRequestTime, thr, tlog, faults, col, api>>
  /\ UNCHANGED pipeVars
  /\ UNCHANGED <<env, llm, limiter, retry>>

\* The answers the queries of a call over a range are given: one of each
\* kind the handler and its workers tell apart (data; a failure request()
\* retries; failures it does not retry, with the status codes the handler
\* passes on and with the messages it parses).
RangeAnswers == {"ok", "s429", "s401", "free_plans_range_body", "from_to_body"}

\* The external data system answers the request of slot w.  The failures of
\* the first attempts count against the environment's budget; the client
\* alone bounds the attempts of a request.
RouteRespond(w) ==
  /\ route.slots[w].pc = "inflight"
  /\ \E a \in AnswersTo(route.slots[w].k) \cap RangeAnswers :
       /\ Inject(a /= "ok" /\ route.slots[w].attempt = 1)
       /\ RouteCommit(Resumed(PutSlot(RouteSeg, w, Answer(SlotSeg(RouteSeg, w), 0, a, now)),
                              w, now))
  /\ UNCHANGED <<now, day, ticks, rpm, lastRequestTime, thr, tlog, col, api>>
  /\ UNCHANGED pipeVars
  /\ UNCHANGED <<env, llm, limiter, retry>>

\* The backoff timer of slot w has fired: request() is called for the next
\* attempt.
RouteRetryFire(w) ==
  /\ route.slots[w].pc = "backoff"
  /\ now >= route.slots[w].due
  /\ RouteCommit(Resumed(PutSlot(RouteSeg, w,
                                 Request([SlotSeg(RouteSeg, w) EXCEPT !.c.attempt = @ + 1],
                                         0, now)),
                         w, now))
  /\ UNCHANGED <<now, day, ticks, rpm, lastRequestTime, thr, tlog, faults, col, api>>
  /\ UNCHANGED pipeVars
  /\ UNCHANGED <<env, llm, limiter, retry>>

\* Queries answered for earlier calls may already be in the cache.
InitiallyCachedRange == {{}, {DateKey(DefaultDates[1])}}

\* One call of the route over a range, against an external data system that
\* may fail, while the clock advances a few times.
RangeTicks == 2
InitRange ==
  /\ UtilIdle
  /\ sessions = {}
  /\ session = NewSession
  /\ expired = FALSE
  /\ hpc = [r \in Runs |-> "idle"]
  /\ sinkBroken = [r \in Runs |-> FALSE]
  /\ sent = [r \in Runs |-> NoEvents]
  /\ gen = [r \in Runs |-> NoGen]
  /\ pool = [r \in Runs |-> NoPool]
  /\ runsAllowed = 0
  /\ faults = 0
  /\ now = Epoch
  /\ day = 0
  /\ ticks = MaxTicks - RangeTicks
  /\ rpm = DefaultRpm
  /\ lastRequestTime = [i \in Throttles |-> 0]
  /\ thr = [c \in Callers |-> NoCall]
  /\ tlog = [i \in Throttles |-> NoThrottleLog]
  /\ col = [r \in Runs |-> NoCol]
  /\ \E ks \in InitiallyCachedRange :
       cache = [k \in CacheKeys |->
                  IF k \in ks THEN cacheSet(NoCache, k, "ok", NoTtl, Ms(Epoch))[k] ELSE NoEntry]
  /\ nlog = NoNetLog
  /\ api = NoApi

NextRange ==
  \/ RouteCall
  \/ \E w \in RouteSlots : RouteRespond(w)
  \/ \E w \in RouteSlots : RouteRetryFire(w)
  \/ Tick

SpecRange == InitRange /\ [][NextRange]_vars

\* ------------------------------------------------------ the cache by itself
\* The data and the ttl arguments set() is called with.
CacheData == {"a", "b"}
Ttls == {NoTtl, 0, 1000}

\* set(endpoint, params, data, ttl) on the key under test.
CacheSetCall ==
  /\ api.calls < MaxOps
  /\ \E d \in CacheData, ttl \in Ttls :
       /\ cache' = cacheSet(cache, api.key, d, ttl, Clock)
       /\ api' = [api EXCEPT !.op = "set", !.value = "null", !.at = Clock,
                             !.calls = @ + 1,
                             !.set = [at |-> Clock, data |-> d, ttl |-> ttl,
                                      removed |-> FALSE]]
  /\ UNCHANGED <<now, day, ticks, rpm, lastRequestTime, thr, tlog, col, nlog, faults>>
  /\ UNCHANGED pipeVars
  /\ UNCHANGED utilVars

\* get(endpoint, params) on the key under test.
CacheGetCall ==
  /\ api.calls < MaxOps
  /\ cache' = cacheAfterGet(cache, api.key, Clock)
  /\ api' = [api EXCEPT !.op = "get", !.value = cacheGet(cache, api.key, Clock),
                        !.at = Clock, !.calls = @ + 1]
  /\ UNCHANGED <<now, day, ticks, rpm, lastRequestTime, thr, tlog, col, nlog, faults>>
  /\ UNCHANGED pipeVars
  /\ UNCHANGED utilVars

\* cleanup() is called.
CacheCleanupCall ==
  /\ api.calls < MaxOps
  /\ cache' = cacheCleanup(cache, Clock)
  /\ api' = [api EXCEPT !.op = "cleanup", !.value = "null", !.at = Clock,
                        !.calls = @ + 1]
  /\ UNCHANGED <<now, day, ticks, rpm, lastRequestTime, thr, tlog, col, nlog, faults>>
  /\ UNCHANGED pipeVars
  /\ UNCHANGED utilVars

\* delete(endpoint, params) on the key under test.
CacheDeleteCall ==
  /\ api.calls < MaxOps
  /\ cache' = cacheDelete(cache, api.key)
  /\ api' = [api EXCEPT !.op = "delete", !.value = "null", !.at = Clock,
                        !.calls = @ + 1, !.set.removed = TRUE]
  /\ UNCHANGED <<now, day, ticks, rpm, lastRequestTime, thr, tlog, col, nlog, faults>>
  /\ UNCHANGED pipeVars
  /\ UNCHANGED utilVars

\* clear().
CacheClearCall ==
  /\ api.calls < MaxOps
  /\ cache' = cacheClear(cache)
  /\ api' = [api EXCEPT !.op = "clear", !.value = "null", !.at = Clock,
                        !.calls = @ + 1, !.set.removed = TRUE]
  /\ UNCHANGED <<now, day, ticks, rpm, lastRequestTime, thr, tlog, col, nlog, faults>>
  /\ UNCHANGED pipeVars
  /\ UNCHANGED utilVars

\* The times at which the session or an entry of the cache reaches its
\* limit.
Deadlines ==
  (IF SessionId \in sessions THEN {Ms(session.createdAt + SESSION_TTL)} ELSE {}) \cup
    { cache[k].expiresAt : k \in { j \in CacheKeys : cache[j] /= NoEntry } }

\* Time passes up to the next millisecond or up to just before, exactly at
\* or just after a deadline; the session is expired once
\* Date.now() - createdAt > SESSION_TTL, and the cleanup timers of the cache
\* and of the store that fall due on the way run.
Elapse ==
  /\ ticks < MaxTicks
  /\ \E t \in {Plus(Clock, Ms(1))} \cup
              UNION { {Pred(d), d, Plus(d, Ms(1))} : d \in Deadlines } :
       /\ After(t, Clock)
       /\ now' = t.ms
       /\ day' = t.days
       /\ expired' = sessionExpiredAt(session, t)
       /\ cache' = cacheAfterTimers(cache, Clock, t)
       /\ sessions' = sessionsAfterTimers(sessions, session, Clock, t)
  /\ ticks' = ticks + 1
  /\ UNCHANGED <<session, hpc, sinkBroken, sent, gen, pool, runsAllowed>>
  /\ UNCHANGED <<rpm, lastRequestTime, thr, tlog, col, nlog, api, faults>>
  /\ UNCHANGED utilVars

\* An hour passes with no call made; the cleanup timers that fall due run.
ElapseHour ==
  /\ ticks < MaxTicks
  /\ LET t == Plus(Clock, Ms(Hour))
     IN /\ now' = t.ms
        /\ day' = t.days
        /\ expired' = sessionExpiredAt(session, t)
        /\ cache' = cacheAfterTimers(cache, Clock, t)
        /\ sessions' = sessionsAfterTimers(sessions, session, Clock, t)
  /\ ticks' = ticks + 1
  /\ UNCHANGED <<session, hpc, sinkBroken, sent, gen, pool, runsAllowed>>
  /\ UNCHANGED <<rpm, lastRequestTime, thr, tlog, col, nlog, api, faults>>
  /\ UNCHANGED utilVars

\* The cache before its first use; no session is held.
InitCache ==
  /\ UtilIdle
  /\ sessions = {}
  /\ session = NewSession
  /\ expired = FALSE
  /\ hpc = [r \in Runs |-> "idle"]
  /\ sinkBroken = [r \in Runs |-> FALSE]
  /\ sent = [r \in Runs |-> NoEvents]
  /\ gen = [r \in Runs |-> NoGen]
  /\ pool = [r \in Runs |-> NoPool]
  /\ runsAllowed = 0
  /\ faults = 0
  /\ now = Epoch
  /\ day = 0
  /\ ticks = 0
  /\ rpm = DefaultRpm
  /\ lastRequestTime = [i \in Throttles |-> 0]
  /\ thr = [c \in Callers |-> NoCall]
  /\ tlog = [i \in Throttles |-> NoThrottleLog]
  /\ col = [r \in Runs |-> NoCol]
  /\ cache = NoCache
  /\ nlog = NoNetLog
  /\ \E k \in KeysUnderTest : api = [NoApi EXCEPT !.key = k]

NextCache ==
  \/ CacheSetCall
  \/ CacheGetCall
  \/ CacheCleanupCall
  \/ CacheDeleteCall
  \/ CacheClearCall
  \/ Elapse
  \/ ElapseHour

SpecCache == InitCache /\ [][NextCache]_vars

\* ---------------------------------------------- the session store by itself
\* Updates a caller of the store may make.
StoreUpdates ==
  {[NoUpdate EXCEPT !.status = "generating"],
   [NoUpdate EXCEPT !.collectedData = {Fragments[1]}],
   [NoUpdate EXCEPT !.partialReport = <<TaskKey(1), PartialReport(1)>>]}

\* createSession(fixtureId): the id is fresh, so it is created once.
StoreCreate ==
  /\ ~api.created
  /\ sessions' = sessions \cup {SessionId}
  /\ session' = [NewSession EXCEPT !.createdAt = now]
  /\ expired' = FALSE
  /\ api' = [api EXCEPT !.op = "createSession", !.value = SessionId, !.at = Clock,
                        !.created = TRUE]
  /\ UNCHANGED <<hpc, sinkBroken, sent, gen, pool, runsAllowed, faults>>
  /\ UNCHANGED <<now, day, ticks, rpm, lastRequestTime, thr, tlog, col, cache, nlog>>
  /\ UNCHANGED utilVars

\* getSession(id).
StoreGet ==
  /\ api.calls < MaxOps
  /\ sessions' = deleteExpired(sessions)
  /\ api' = [api EXCEPT !.op = "getSession",
                        !.value = IF getSession(sessions) THEN "session" ELSE "null",
                        !.at = Clock, !.calls = @ + 1]
  /\ UNCHANGED <<session, expired, hpc, sinkBroken, sent, gen, pool, runsAllowed, faults>>
  /\ UNCHANGED <<now, day, ticks, rpm, lastRequestTime, thr, tlog, col, cache, nlog>>
  /\ UNCHANGED utilVars

\* updateSession(id, updates).
StoreUpdate ==
  /\ api.calls < MaxOps
  /\ \E u \in StoreUpdates :
       LET st == updateSession([session |-> session, sessions |-> sessions], u)
       IN /\ session' = st.session
          /\ sessions' = st.sessions
  /\ api' = [api EXCEPT !.op = "updateSession",
                        !.value = IF getSession(sessions) THEN "true" ELSE "false",
                        !.at = Clock, !.calls = @ + 1]
  /\ UNCHANGED <<expired, hpc, sinkBroken, sent, gen, pool, runsAllowed, faults>>
  /\ UNCHANGED <<now, day, ticks, rpm, lastRequestTime, thr, tlog, col, cache, nlog>>
  /\ UNCHANGED utilVars

\* deleteSession(id).
StoreDelete ==
  /\ api.calls < MaxOps
  /\ sessions' = sessions \ {SessionId}
  /\ api' = [api EXCEPT !.op = "deleteSession",
                        !.value = IF SessionId \in sessions THEN "true" ELSE "false",
                        !.at = Clock, !.calls = @ + 1,
                        !.deleted = @ \/ api.created]
  /\ UNCHANGED <<session, expired, hpc, sinkBroken, sent, gen, pool, runsAllowed, faults>>
  /\ UNCHANGED <<now, day, ticks, rpm, lastRequestTime, thr, tlog, col, cache, nlog>>
  /\ UNCHANGED utilVars

\* cleanupExpiredSessions() is called.
StoreCleanup ==
  /\ api.calls < MaxOps
  /\ sessions' = IF SessionId \in sessions /\ sessionExpired(session, now)
                 THEN sessions \ {SessionId} ELSE sessions
  /\ api' = [api EXCEPT !.op = "cleanupExpiredSessions", !.value = "null",
                        !.at = Clock, !.calls = @ + 1]
  /\ UNCHANGED <<session, expired, hpc, sinkBroken, sent, gen, pool, runsAllowed, faults>>
  /\ UNCHANGED <<now, day, ticks, rpm, lastRequestTime, thr, tlog, col, cache, nlog>>
  /\ UNCHANGED utilVars

\* The store after construction: it holds no session.
InitStore ==
  /\ UtilIdle
  /\ sessions = {}
  /\ session = NewSession
  /\ expired = FALSE
  /\ hpc = [r \in Runs |-> "idle"]
  /\ sinkBroken = [r \in Runs |-> FALSE]
  /\ sent = [r \in Runs |-> NoEvents]
  /\ gen = [r \in Runs |-> NoGen]
  /\ pool = [r \in Runs |-> NoPool]
  /\ runsAllowed = 0
  /\ faults = 0
  /\ now = Epoch
  /\ day = 0
  /\ ticks = 0
  /\ rpm = DefaultRpm
  /\ lastRequestTime = [i \in Throttles |-> 0]
  /\ thr = [c \in Callers |-> NoCall]
  /\ tlog = [i \in Throttles |-> NoThrottleLog]
  /\ col = [r \in Runs |-> NoCol]
  /\ cache = NoCache
  /\ nlog = NoNetLog
  /\ api = NoApi

NextStore ==
  \/ StoreCreate
  \/ StoreGet
  \/ StoreUpdate
  \/ StoreDelete
  \/ StoreCleanup
  \/ Elapse

SpecStore == InitStore /\ [][NextStore]_vars

\* -------------------------------------------------- the configured rate
\* new ReportGenerator(sessionId, progressCallback): the throttle of the run
\* is built for the configured rate.
Construct ==
  /\ ~env.read
  /\ env' = [env EXCEPT !.read = TRUE]
  /\ rpm' = configuredRpm(env.APIFOOTBALL_REQUESTS_PER_MINUTE)
  /\ UNCHANGED <<now, day, ticks, lastRequestTime, thr, tlog, col, cache, nlog, api, faults, llm, limiter, retry,
               route>>
  /\ UNCHANGED pipeVars

\* The process starts with any value of the setting.
InitConfig ==
  /\ sessions = {}
  /\ session = NewSession
  /\ expired = FALSE
  /\ hpc = [r \in Runs |-> "idle"]
  /\ sinkBroken = [r \in Runs |-> FALSE]
  /\ sent = [r \in Runs |-> NoEvents]
  /\ gen = [r \in Runs |-> NoGen]
  /\ pool = [r \in Runs |-> NoPool]
  /\ runsAllowed = 0
  /\ faults = 0
  /\ now = Epoch
  /\ day = 0
  /\ ticks = 0
  /\ rpm = DefaultRpm
  /\ lastRequestTime = [i \in Throttles |-> 0]
  /\ thr = [c \in Callers |-> NoCall]
  /\ tlog = [i \in Throttles |-> NoThrottleLog]
  /\ col = [r \in Runs |-> NoCol]
  /\ cache = NoCache
  /\ nlog = NoNetLog
  /\ api = NoApi
  /\ \E v \in EnvValues : env = [NoEnv EXCEPT !.APIFOOTBALL_REQUESTS_PER_MINUTE = v]
  /\ LlmIdle
  /\ LimiterIdle
  /\ RetryIdle
  /\ RouteIdle

NextConfig == Construct

SpecConfig == InitConfig /\ [][NextConfig]_vars

\* ------------------------------------------------- analyzeSignal by itself
\* analyzeSignal(input) is called: the chain is built (getChatModel() throws
\* when no key is configured, outside every try) and invoked.
SignalCall ==
  /\ llm.pc = "idle"
  /\ llm' = IF llm.apiKey
            THEN [llm EXCEPT !.pc = "invoke", !.attempt = 1, !.calls = 1]
            ELSE [llm EXCEPT !.pc = "rejected"]
  /\ UNCHANGED <<env, faults, limiter, retry, route>>
  /\ UNCHANGED pipeVars
  /\ UNCHANGED netVars

\* chain.invoke() settles: it returns the output of the completion service
\* when the schema accepts it, and throws otherwise.
InvokeReturn ==
  /\ llm.pc = "invoke"
  /\ \E output \in ServiceOutputs \cup {InvokeThrew} :
       LET res == chainInvoke(output)
           l == [llm EXCEPT !.output = output, !.received = res]
       IN llm' =
         IF llm.variant = "single"
         THEN [l EXCEPT !.pc = "returned",
                        !.result = IF res = InvokeThrew THEN FallbackResult
                                   ELSE analyzeSignalOnce(res)]
         ELSE IF res /= InvokeThrew /\ AllValid(res)
         THEN [l EXCEPT !.pc = "returned", !.result = res]
         ELSE IF llm.attempt < signalMaxRetries
         THEN [l EXCEPT !.pc = "wait"]
         ELSE [l EXCEPT !.pc = "returned",
                        !.result = IF res = InvokeThrew THEN FallbackResult ELSE Filled(res)]
  /\ UNCHANGED <<env, faults, limiter, retry, route>>
  /\ UNCHANGED pipeVars
  /\ UNCHANGED netVars

\* The one-second delay before a retry is over: the loop goes on.
SignalRetry ==
  /\ llm.pc = "wait"
  /\ llm' = [llm EXCEPT !.pc = "invoke", !.attempt = @ + 1, !.calls = @ + 1]
  /\ UNCHANGED <<env, faults, limiter, retry, route>>
  /\ UNCHANGED pipeVars
  /\ UNCHANGED netVars

\* Either function is about to be called, with or without a configured key.
InitSignal ==
  /\ sessions = {}
  /\ session = NewSession
  /\ expired = FALSE
  /\ hpc = [r \in Runs |-> "idle"]
  /\ sinkBroken = [r \in Runs |-> FALSE]
  /\ sent = [r \in Runs |-> NoEvents]
  /\ gen = [r \in Runs |-> NoGen]
  /\ pool = [r \in Runs |-> NoPool]
  /\ runsAllowed = 0
  /\ faults = 0
  /\ now = Epoch
  /\ day = 0
  /\ ticks = 0
  /\ rpm = DefaultRpm
  /\ lastRequestTime = [i \in Throttles |-> 0]
  /\ thr = [c \in Callers |-> NoCall]
  /\ tlog = [i \in Throttles |-> NoThrottleLog]
  /\ col = [r \in Runs |-> NoCol]
  /\ cache = NoCache
  /\ nlog = NoNetLog
  /\ api = NoApi
  /\ EnvIdle
  /\ LimiterIdle
  /\ RetryIdle
  /\ RouteIdle
  /\ \E v \in Variants, key \in BOOLEAN :
       llm = [NoLlm EXCEPT !.variant = v, !.apiKey = key]

NextSignal ==
  \/ SignalCall
  \/ InvokeReturn
  \/ SignalRetry

SpecSignal == InitSignal /\ [][NextSignal]_vars

\* ------------------------------------------------ the RateLimiter by itself
\* The times that pass between two requests of the client.
LimiterSteps == {1, Minute - 1, Minute, Hour - Minute, Hour, Day}

\* The numbers of admitted requests the client has made before.
Histories == {0, perMinute - 1, perMinute, perHour - 1, perHour, perDay - 1, perDay}

\* GET /api/generate without a key of the caller's own: checkLimit, and
\* recordRequest when the request is allowed.
LimiterRequest ==
  /\ limiter.ops < MaxOps
  /\ LET res == checkLimit(limiter.requests, limiter.now, limiter.config)
     IN limiter' = [limiter EXCEPT
          !.requests = IF res.allowed THEN recordRequest(res.requests, limiter.now)
                       ELSE res.requests,
          !.recorded = IF res.allowed THEN Append(@, limiter.now) ELSE @,
          !.checked = TRUE, !.allowed = res.allowed, !.limitType = res.limitType,
          !.at = limiter.now, !.known = Len(limiter.recorded), !.ops = @ + 1]
  /\ UNCHANGED <<env, llm, retry, faults, route>>
  /\ UNCHANGED pipeVars
  /\ UNCHANGED netVars

\* getStatus(request): checkLimit without recordRequest.
LimiterGetStatus ==
  /\ limiter.ops < MaxOps
  /\ LET res == checkLimit(limiter.requests, limiter.now, limiter.config)
     IN limiter' = [limiter EXCEPT
          !.requests = res.requests,
          !.checked = TRUE, !.allowed = res.allowed, !.limitType = res.limitType,
          !.at = limiter.now, !.known = Len(limiter.recorded), !.ops = @ + 1]
  /\ UNCHANGED <<env, llm, retry, faults, route>>
  /\ UNCHANGED pipeVars
  /\ UNCHANGED netVars

\* resetClient(clientId): the log of the client is deleted.
LimiterResetClient ==
  /\ limiter.ops < MaxOps
  /\ limiter' = [limiter EXCEPT !.requests = << >>, !.reset = TRUE, !.ops = @ + 1]
  /\ UNCHANGED <<env, llm, retry, faults, route>>
  /\ UNCHANGED pipeVars
  /\ UNCHANGED netVars

\* The partial configurations updateConfig is called with.
UpdateConfigs == {[perMinute |-> 5], [perMinute |-> 1, perHour |-> 2]}

\* updateConfig(config).
LimiterUpdateConfig ==
  /\ limiter.ops < MaxOps
  /\ \E c \in UpdateConfigs :
       limiter' = [limiter EXCEPT !.config = updateConfig(@, c), !.reconfigured = TRUE,
                                  !.ops = @ + 1]
  /\ UNCHANGED <<env, llm, retry, faults, route>>
  /\ UNCHANGED pipeVars
  /\ UNCHANGED netVars

\* Time passes.
LimiterElapse ==
  /\ limiter.ops < MaxOps
  /\ \E d \in LimiterSteps : limiter' = [limiter EXCEPT !.now = @ + d, !.ops = @ + 1]
  /\ UNCHANGED <<env, llm, retry, faults, route>>
  /\ UNCHANGED pipeVars
  /\ UNCHANGED netVars

\* The client has made some admitted requests before.
InitLimiter ==
  /\ sessions = {}
  /\ session = NewSession
  /\ expired = FALSE
  /\ hpc = [r \in Runs |-> "idle"]
  /\ sinkBroken = [r \in Runs |-> FALSE]
  /\ sent = [r \in Runs |-> NoEvents]
  /\ gen = [r \in Runs |-> NoGen]
  /\ pool = [r \in Runs |-> NoPool]
  /\ runsAllowed = 0
  /\ faults = 0
  /\ NetIdle
  /\ EnvIdle
  /\ LlmIdle
  /\ RetryIdle
  /\ RouteIdle
  /\ \E first \in {perMinute - 1, perMinute}, n \in Histories :
       limiter = History(first, n)

NextLimiter ==
  \/ LimiterRequest
  \/ LimiterGetStatus
  \/ LimiterResetClient
  \/ LimiterUpdateConfig
  \/ LimiterElapse

SpecLimiter == InitLimiter /\ [][NextLimiter]_vars

\* ---------------------------------------------- retryWithBackoff by itself
\* retryWithBackoff(fn, options) is called: the options are destructured and
\* the loop is entered; fn is called when 1 <= maxRetries, else the loop is
\* skipped and lastError is thrown.
RetryCall ==
  /\ retry.pc = "idle"
  /\ LET r0 == [retry EXCEPT
                 !.maxRetries = Option(retry.options.maxRetries, defaultMaxRetries),
                 !.delay = Option(retry.options.initialDelay, defaultInitialDelay),
                 !.maxDelay = Option(retry.options.maxDelay, defaultMaxDelay),
                 !.backoffMultiplier =
                    Option(retry.options.backoffMultiplier, defaultBackoffMultiplier),
                 !.attempt = 1]
     IN retry' = IF r0.attempt <= r0.maxRetries
                 THEN [r0 EXCEPT !.pc = "fn", !.calls = @ + 1]
                 ELSE [r0 EXCEPT !.pc = "thrown", !.thrown = r0.lastError]
  /\ UNCHANGED <<env, llm, limiter, faults, route>>
  /\ UNCHANGED pipeVars
  /\ UNCHANGED netVars

\* fn() settles: its value is returned; its error is caught, and either the
\* timer of the current delay is set or, after the last attempt, the loop
\* ends and lastError is thrown.
FnSettle ==
  /\ retry.pc = "fn"
  /\ \E ok \in BOOLEAN :
       retry' = IF ok THEN [retry EXCEPT !.pc = "returned"]
                ELSE LET r1 == [retry EXCEPT !.lastError = ErrorOf(retry.calls),
                                             !.failed = @ + 1]
                     IN IF r1.attempt < r1.maxRetries
                        THEN [r1 EXCEPT !.pc = "wait",
                                        !.longestWait = IF r1.delay > @ THEN r1.delay ELSE @]
                        ELSE [r1 EXCEPT !.pc = "thrown", !.attempt = @ + 1,
                                        !.thrown = r1.lastError]
  /\ UNCHANGED <<env, llm, limiter, faults, route>>
  /\ UNCHANGED pipeVars
  /\ UNCHANGED netVars

\* The timer fires: the delay is multiplied and capped, and the next attempt
\* calls fn.
RetryWake ==
  /\ retry.pc = "wait"
  /\ retry' = [retry EXCEPT
       !.delay = nextDelay(retry.delay, retry.backoffMultiplier, retry.maxDelay),
       !.attempt = @ + 1, !.pc = "fn", !.calls = @ + 1]
  /\ UNCHANGED <<env, llm, limiter, faults, route>>
  /\ UNCHANGED pipeVars
  /\ UNCHANGED netVars

\* A caller is about to call retryWithBackoff with some options.
InitRetry ==
  /\ sessions = {}
  /\ session = NewSession
  /\ expired = FALSE
  /\ hpc = [r \in Runs |-> "idle"]
  /\ sinkBroken = [r \in Runs |-> FALSE]
  /\ sent = [r \in Runs |-> NoEvents]
  /\ gen = [r \in Runs |-> NoGen]
  /\ pool = [r \in Runs |-> NoPool]
  /\ runsAllowed = 0
  /\ faults = 0
  /\ NetIdle
  /\ EnvIdle
  /\ LlmIdle
  /\ LimiterIdle
  /\ RouteIdle
  /\ \E o \in RetryOptions : retry = [NoRetry EXCEPT !.options = o]

NextRetry ==
  \/ RetryCall
  \/ FnSettle
  \/ RetryWake

SpecRetry == InitRetry /\ [][NextRetry]_vars

\* ================================================================== claims
\* The tasks of run r whose result write was executed.
Wrote(r) == { i \in 1..NumTasks : pool[r].outcome[i] \in {"ok", "notified_late"} }

\* The partial report task i of run r built.
ReportOf(r, i) ==
  IF i \in pool[r].invokeFailed THEN FallbackPartialReport(i) ELSE PartialReport(i)

\* Stage 2 of run r has finished: every worker has drained the queue.
StageTwoFinished(r) == \A w \in Workers : pool[r].wpc[w] = "done"

\* C1: once stage 2 has finished, the stored session holds exactly one
\* partial report per task that wrote its result, under that task's own
\* composite key and with that task's own report, and none for a failed task.
C1_NoLostUpdates ==
  \A r \in Runs :
    (StageTwoFinished(r) /\ SessionId \in sessions) =>
      /\ \A i \in 1..NumTasks :
           IF i \in Wrote(r)
           THEN /\ TaskKey(i) \in DOMAIN session.partialReports
                /\ session.partialReports[TaskKey(i)] = ReportOf(r, i)
           ELSE TaskKey(i) \notin DOMAIN session.partialReports
      /\ Cardinality(DOMAIN session.partialReports) = Cardinality(Wrote(r))

\* The stage has finished after both workers wrote results and a task failed.
C1_Witness ==
  /\ StageTwoFinished(1) /\ SessionId \in sessions
  /\ Cardinality(Wrote(1)) >= 3
  /\ \E i \in 1..NumTasks : pool[1].outcome[i] = "failed"
  /\ \E i, j \in Wrote(1) :
       getAllSignals[i].categoryId = getAllSignals[j].categoryId /\ i /= j

\* C2: the status only moves forward along
\* pending -> generating -> {completed | error}; completed and error are final.
C2_StatusForward ==
  [][/\ session.status \in {"completed", "error"} => session'.status = session.status
     /\ session.status = "generating" => session'.status /= "pending"]_vars

\* C3: when the fetch of the fixture record fails or returns no record, the
\* run is rejected with that failure, the stored session has status error and
\* the message, and the run starts no signal task, no merge and no synthesis.
C3_PrimaryFailureIsFatal ==
  \A r \in Runs :
    gen[r].primaryFailed =>
      /\ gen[r].pc = "rejected" /\ gen[r].thrown = MsgFixture
      /\ SessionId \in sessions =>
           session.status = "error" /\ session.error = MsgFixture
      /\ \A i \in 1..NumTasks : pool[r].starts[i] = 0
      /\ gen[r].mergeCalls = {} /\ gen[r].finalCalls = 0

\* The run has ended on a failed fixture fetch and the caller was told.
C3_Witness ==
  /\ gen[1].primaryFailed /\ hpc[1] = "closed" /\ sent[1].server_error = 1
  /\ SessionId \in sessions /\ session.status = "error"

\* C4: when the final synthesis call throws (its completion request fails, or
\* no model is configured and the chain cannot be built), the run is rejected with the
\* thrown message, the stored session has status error and that message in
\* its error field, and the session holds no final report.
C4_FinalFailureIsFatal ==
  \A r \in Runs :
    gen[r].finalResult = "threw" =>
      /\ gen[r].pc = "rejected" /\ gen[r].thrown \in {MsgFinal, MsgNoKey}
      /\ SessionId \in sessions =>
           session.status = "error" /\ session.error = gen[r].thrown
      /\ session.finalReport = "null"

\* The final synthesis call threw after a category had been merged.
C4_Witness ==
  /\ gen[1].finalResult = "threw" /\ SessionId \in sessions
  /\ session.status = "error" /\ DOMAIN session.categoryReports /= {}

\* C5: on a session that does not expire, a run whose fixture fetch and whose
\* final synthesis call both succeeded ends with status completed and a
\* final report stored.
C5_PartialFailuresTolerated ==
  \A r \in Runs :
    (gen[r].pc \in {"resolved", "rejected"} /\ ~expired
       /\ gen[r].finalResult = "ok") =>
      /\ gen[r].pc = "resolved"
      /\ session.status = "completed"
      /\ session.finalReport /= "null"

\* C6: no stream carries both a complete event and a server_error event.
C6_NeverBothTerminals ==
  \A r \in Runs : ~(sent[r].complete >= 1 /\ sent[r].server_error >= 1)

\* generate() resolved, yet the session had expired when the handler looked
\* for the report: the stream carries server_error and no complete.
C6_Witness ==
  /\ hpc[1] = "closed" /\ gen[1].pc = "resolved"
  /\ sent[1].server_error = 1 /\ sent[1].complete = 0

\* The stream of run r is closed with exactly one terminal event on it.
OneTerminal(r) ==
  hpc[r] = "closed" /\ sent[r].complete + sent[r].server_error = 1

\* C7 as stated: every run that was started eventually has exactly one
\* terminal event on its stream, which is then closed.
C7_AlwaysOneTerminal ==
  \A r \in Runs : (hpc[r] = "running") ~> OneTerminal(r)

\* C7 as amended: every started run is eventually closed, with exactly one
\* terminal event on the stream unless the caller abandoned the stream.
C7_OneTerminalWhileConnected ==
  \A r \in Runs :
    (hpc[r] = "running") ~> (hpc[r] = "closed" /\ (sinkBroken[r] \/ OneTerminal(r)))

\* A run the session expired under is closed with one server_error.
C7_Witness ==
  /\ hpc[1] = "closed" /\ ~sinkBroken[1] /\ expired
  /\ gen[1].thrown = MsgLost /\ sent[1].server_error = 1 /\ sent[1].complete = 0

\* C8: at most signalConcurrency signal tasks of a run are started and not
\* yet finished, and the pool has min(signalConcurrency, tasks) workers.
C8_BoundedConcurrency ==
  \A r \in Runs :
    /\ Cardinality({ i \in 1..NumTasks : pool[r].outcome[i] = "running" })
         <= signalConcurrency
    /\ Cardinality({ i \in 1..NumTasks : pool[r].outcome[i] = "running" })
         <= Cardinality(Workers)
    /\ Cardinality(DOMAIN pool[r].wpc) = Min(signalConcurrency, NumTasks)

\* Two completion calls are in flight while tasks are still unclaimed.
C8_Witness ==
  /\ Cardinality({ i \in 1..NumTasks : pool[1].outcome[i] = "running" }) = 2
  /\ pool[1].nextIndex < NumTasks
  /\ pool[1].nextIndex > 2

\* C9: the tasks claimed so far are exactly the first nextIndex tasks, each
\* started once; when every worker has drained the queue every task of the
\* blueprint has been started exactly once.
C9_EachTaskClaimedOnce ==
  \A r \in Runs :
    /\ \A i \in 1..NumTasks :
         pool[r].starts[i] = (IF i <= pool[r].nextIndex THEN 1 ELSE 0)
    /\ StageTwoFinished(r) =>
         \A i \in 1..NumTasks : pool[r].starts[i] = 1
    /\ \A v, w \in Workers :
         (v /= w /\ pool[r].wpc[v] = "llm" /\ pool[r].wpc[w] = "llm")
           => pool[r].wtask[v] /= pool[r].wtask[w]

\* Both workers have drained the queue, each having run some of the tasks.
C9_Witness ==
  /\ StageTwoFinished(1) /\ pool[1].nextIndex = NumTasks
  /\ pool[1].wtask[1] /= pool[1].wtask[2]
  /\ pool[1].wtask[1] > 2 /\ pool[1].wtask[2] > 2

\* C10: a signal task starts only after data collection has finished, a merge
\* call is made only when every task is claimed and none is running, and the
\* final synthesis call is made only after every category was processed.
C10_StagesInOrder ==
  \A r \in Runs :
    /\ (\E i \in 1..NumTasks : pool[r].starts[i] > 0) => gen[r].collectDone
    /\ (gen[r].mergeCalls /= {} \/ gen[r].pc \in {"s3", "merge", "s4", "final"}) =>
         /\ pool[r].nextIndex = NumTasks
         /\ \A i \in 1..NumTasks : pool[r].outcome[i] \notin {"none", "running"}
    /\ gen[r].finalCalls > 0 =>
         /\ gen[r].catsDone = NumCats
         /\ gen[r].pc /= "merge"

\* The final synthesis call is in flight after merges were made.
C10_Witness ==
  /\ gen[1].pc = "final" /\ gen[1].mergeCalls /= {}
  /\ gen[1].catsDone = NumCats

\* The tasks of category c, as positions in the task list.
CatTasks(c) == { i \in 1..NumTasks : getAllSignals[i].categoryId = Blueprint[c].id }

\* The tasks of run r that threw inside their try block.
Threw(r) == { i \in 1..NumTasks : pool[r].outcome[i] = "failed" }

\* The partial reports that the tasks of category c wrote in run r.
WrittenFor(r, c) == { ReportOf(r, i) : i \in CatTasks(c) \cap Wrote(r) }

\* C11 as stated: a failure inside a signal task, a failing completion call
\* included, rejects no worker, does not fail stage 2, leaves every task
\* claimed once when the stage has finished, and leaves no entry for the
\* failed signal in partialReports.
C11_FailedSignalAbsent ==
  \A r \in Runs :
    /\ (\E w \in Workers : pool[r].wpc[w] = "rejected") => sinkBroken[r]
    /\ (gen[r].stage = 2 /\ gen[r].pc = "rejected" /\ pool[r].nextIndex > 0)
         => gen[r].thrown = MsgSink
    /\ StageTwoFinished(r) => \A i \in 1..NumTasks : pool[r].starts[i] = 1
    /\ \A i \in Threw(r) \cup pool[r].invokeFailed :
         TaskKey(i) \notin DOMAIN session.partialReports

\* C11 as amended: a task that throws (session read, data extraction, or
\* analyzeSignal rejecting) rejects no worker, does not fail stage 2, leaves
\* every task claimed once when the stage has finished, and has no entry;
\* a failing completion request is not such a failure: analyzeSignal answers
\* it with its fallback result, which the task stores under its key.
C11_TaskFailureContained ==
  \A r \in Runs :
    /\ (\E w \in Workers : pool[r].wpc[w] = "rejected") => sinkBroken[r]
    /\ (gen[r].stage = 2 /\ gen[r].pc = "rejected" /\ pool[r].nextIndex > 0)
         => gen[r].thrown = MsgSink
    /\ StageTwoFinished(r) => \A i \in 1..NumTasks : pool[r].starts[i] = 1
    /\ \A i \in Threw(r) : TaskKey(i) \notin DOMAIN session.partialReports
    /\ \A i \in pool[r].invokeFailed :
         SessionId \in sessions =>
           /\ TaskKey(i) \in DOMAIN session.partialReports
           /\ session.partialReports[TaskKey(i)] = FallbackPartialReport(i)

\* Stage 3 was entered after one task threw, one fell back and the rest
\* wrote their results.
C11_Witness ==
  /\ gen[1].stage = 3 /\ ~sinkBroken[1] /\ SessionId \in sessions
  /\ Cardinality(Threw(1)) = 1 /\ Cardinality(pool[1].invokeFailed) = 1
  /\ Cardinality(Wrote(1)) = NumTasks - 1

\* C12: when exactly one task of a category threw and the others wrote their
\* results, the merge call for the category is made with exactly the written
\* partial reports, and the category report built from them is stored under
\* the category id (for a session still stored and a merge call that
\* succeeded).
C12_MergeUsesRemainingPartials ==
  \A r \in Runs : \A c \in 1..NumCats :
    (/\ Cardinality(CatTasks(c) \cap Threw(r)) = 1
     /\ CatTasks(c) \ Threw(r) \subseteq Wrote(r)
     /\ SessionId \in sessions) =>
      /\ (gen[r].pc = "merge" /\ gen[r].cat = c) => gen[r].mergeIn = WrittenFor(r, c)
      /\ (gen[r].stage >= 3 /\ gen[r].catsDone >= c) => c \in gen[r].mergeCalls
      /\ (gen[r].stage >= 3 /\ gen[r].catsDone >= c /\ c \notin gen[r].mergeFailed) =>
           /\ Blueprint[c].id \in DOMAIN session.categoryReports
           /\ session.categoryReports[Blueprint[c].id] =
                [categoryId |-> Blueprint[c].id, from |-> WrittenFor(r, c)]

\* The first category was merged from the two partial reports left after its
\* third task threw.
C12_Witness ==
  /\ Cardinality(CatTasks(1) \cap Threw(1)) = 1 /\ SessionId \in sessions
  /\ Blueprint[1].id \in DOMAIN session.categoryReports
  /\ Cardinality(session.categoryReports[Blueprint[1].id].from) = 2
  /\ gen[1].catsDone >= 1

\* C13: stage 3 takes the categories in blueprint order with one merge call
\* in flight at most; a category is merged exactly when it has partial
\* reports; a skipped category and a category whose merge call failed store
\* no category report; neither fails the stage, and every category has been
\* processed when stage 3 is left.
C13_EveryCategoryAttempted ==
  \A r \in Runs :
    /\ gen[r].pc = "merge" =>
         /\ gen[r].cat = gen[r].catsDone + 1
         /\ gen[r].mergeCalls \ (1..gen[r].catsDone) = {gen[r].cat}
    /\ gen[r].pc /= "merge" => gen[r].mergeCalls \subseteq 1..gen[r].catsDone
    /\ \A c \in 1..gen[r].catsDone :
         /\ c \in gen[r].mergeCalls <=> PartialsOf(session, c) /= {}
         /\ c \notin gen[r].mergeCalls =>
              Blueprint[c].id \notin DOMAIN session.categoryReports
         /\ c \in gen[r].mergeFailed =>
              Blueprint[c].id \notin DOMAIN session.categoryReports
    /\ (gen[r].stage = 3 /\ gen[r].pc = "rejected"
          /\ (gen[r].catsDone > 0 \/ gen[r].mergeCalls /= {}))
         => gen[r].thrown = MsgSink
    /\ gen[r].stage = 4 => gen[r].catsDone = NumCats

\* The merge call of the first category failed, the second category was
\* merged and stored, and the final synthesis call was made.
C13_Witness ==
  /\ gen[1].mergeFailed = {1} /\ 2 \in gen[1].mergeCalls
  /\ Blueprint[2].id \in DOMAIN session.categoryReports
  /\ gen[1].pc = "final"

\* C14: within a run no progress percentage delivered to the sink is below
\* the one delivered before it.
C14_ProgressNonDecreasing ==
  \A r \in Runs : gen[r].nonDecreasing

\* A run reached 100 after a task threw and a merge call failed.
C14_Witness ==
  /\ gen[1].lastProgress = CompletedProgress
  /\ Threw(1) /= {} /\ gen[1].mergeFailed /= {}
  /\ gen[1].completedSignals = NumTasks - 1

\* C15: a stream closed with a complete event has 100 as its last progress
\* value, and a stream closed with a server_error event never carried 100.
C15_HundredOnlyAtComplete ==
  \A r \in Runs :
    hpc[r] = "closed" =>
      /\ sent[r].complete >= 1 => gen[r].lastProgress = CompletedProgress
      /\ sent[r].server_error >= 1 => gen[r].lastProgress /= CompletedProgress

\* Consecutive returns of throttle() on instance i were at least
\* ceil(60000 / rpm) ms apart.
Spaced(i) == tlog[i].minGap = -1 \/ tlog[i].minGap * rpm >= 60000

\* C16: when throttle() is called sequentially on an instance, consecutive
\* returns are at least ceil(60000 / N) ms apart and lastRequestTime is the
\* time of the latest return.
C16_SequentialSpacing ==
  \A i \in Throttles :
    ~tlog[i].overlapped =>
      /\ Spaced(i)
      /\ tlog[i].returns > 0 => lastRequestTime[i] = tlog[i].last

\* Sequential calls at a rate whose delay is rounded up: one waited for the
\* rest of the delay and its timer fired late.
C16_Witness ==
  /\ rpm = 40000 /\ ~tlog[SharedThrottle].overlapped
  /\ tlog[SharedThrottle].returns >= 3
  /\ tlog[SharedThrottle].minGap = 2
  /\ \E c \in Callers : thr[c].calls = MaxCalls /\ thr[c].called < tlog[SharedThrottle].last

\* C17: consecutive returns of throttle() on an instance are at least
\* ceil(60000 / N) ms apart also when calls overlap.
C17_ConcurrentSpacing ==
  \A i \in Throttles : Spaced(i)

\* C18. Every network request made for a run follows a throttle acquisition
\* of its own (the six fragment requests, the standings fallback and the
\* client's retries alike), so two consecutive network requests of one run
\* are at least the minimum delay apart.
C18_RunRequestsThrottled ==
  /\ nlog.unthrottled = 0
  /\ \A r \in Runs : nlog.minGapBy[r] = -1 \/ nlog.minGapBy[r] * rpm >= 60000

\* C19. Runs of different sessions share one throttle: two consecutive
\* network requests are at least the minimum delay apart even when they
\* belong to different runs.
C19_RequestsOfAllRunsSpaced ==
  nlog.minGap = -1 \/ nlog.minGap * rpm >= 60000

\* C20. A fragment fetch that finds an unexpired cache entry returns the
\* cached data at once: no network request is made for it and its caller
\* has not waited on the throttle for it.
C20_CacheHitSkipsThrottle ==
  /\ nlog.hitsAfterWait = 0
  /\ \A r \in Runs :
       col[r].pc = "inflight" => ~cacheHit(cache, generateKey(col[r]), At(nlog.lastBy[r]))

\* What the TTL table says for an endpoint, and the default for the others.
TableTTL(endpoint) ==
  IF endpoint \in DOMAIN ENDPOINT_TTL_CONFIG THEN ENDPOINT_TTL_CONFIG[endpoint]
  ELSE Ms(60 * 60 * 1000)

\* C21: after set() with no explicit TTL at time t, get() returns the data up
\* to t + TTL(endpoint) and returns null and removes the entry after that;
\* the default TTL applies to an endpoint the table does not list.
C21_GetWithinTtl ==
  (api.op = "get" /\ api.set.at /= Ms(0) /\ api.set.ttl = NoTtl) =>
     IF ~After(api.at, Plus(api.set.at, TableTTL(CachedEndpoints[api.key])))
     THEN api.value = api.set.data
     ELSE api.value = "null" /\ cache[api.key] = NoEntry

\* C21, amended: the same, for an entry that no delete() and no clear() has
\* removed since the set(); after one of them get() returns null.
C21_GetWithinTtlUnlessRemoved ==
  (api.op = "get" /\ api.set.at /= Ms(0) /\ api.set.ttl = NoTtl) =>
     IF api.set.removed THEN api.value = "null" /\ cache[api.key] = NoEntry
     ELSE IF ~After(api.at, Plus(api.set.at, TableTTL(CachedEndpoints[api.key])))
     THEN api.value = api.set.data
     ELSE api.value = "null" /\ cache[api.key] = NoEntry

\* get() found nothing one ms after the 30 days of the /timezone entry that
\* a set() without ttl had stored and nothing had removed.
C21_Witness ==
  /\ api.op = "get" /\ api.set.ttl = NoTtl /\ ~api.set.removed
  /\ CachedEndpoints[api.key] = "/timezone"
  /\ api.at = Plus(Plus(api.set.at, Days(30)), Ms(1))
  /\ api.value = "null" /\ cache[api.key] = NoEntry

\* C22: no negative caching.  A step creates or changes the cache entry of a
\* key only when a network request for that key is in flight and is answered
\* by a successful response whose body carries no errors; an answer with a
\* status that is not 2xx, a network error or a body with errors leaves
\* every entry as it was.
C22_NoNegativeCaching ==
  [][\A k \in CacheKeys :
       (cache'[k] /= cache[k] /\ cache'[k] /= NoEntry) =>
          /\ \E r \in Runs : col[r].pc = "inflight" /\ generateKey(col[r]) = k
          /\ cache'[k].data \in QueryRecords \cup {"empty", "nolist"}]_vars

\* A request ended with the error for a body carrying errors, and the cache
\* has no entry for its key.
C22_Witness ==
  \E r \in Runs :
    /\ col[r].pc = "done" /\ col[r].result.returned = "error"
    /\ col[r].result.lastAnswer = "error_body"
    /\ cache[col[r].result.k] = NoEntry

\* C23: a cache entry, once written, keeps its data and its expiry time until
\* it is evicted; a request that missed the cache while another one for the
\* same key was in flight does not overwrite the entry of the one that
\* finished first.
C23_EntriesImmutable ==
  [][\A k \in CacheKeys :
       cache[k] /= NoEntry => cache'[k] \in {cache[k], NoEntry}]_vars

\* C24: an answer 401 ends the request at once, on whichever attempt it
\* arrives: the request throws an error with status code 401 and the
\* endpoint, no retry follows, and the 401 answered the only attempt made on
\* that attempt number.
C24_UnauthorizedFailsAtOnce ==
  \A r \in Runs :
    col[r].answer = "s401" =>
      /\ col[r].pc = "done"
      /\ col[r].result.returned = "error"
      /\ col[r].result.statusCode = 401
      /\ col[r].result.endpoint = CachedEndpoints[generateKey(col[r])]
      /\ col[r].result.fetches = col[r].attempt

\* The 401 answered the second attempt of a request.
C24_Witness ==
  \E r \in Runs :
    /\ col[r].answer = "s401" /\ col[r].pc = "done"
    /\ col[r].attempt = 2 /\ col[r].result.fetches = 2

\* C25: a request whose every attempt was answered with a sign of rate
\* limiting, a status 429 or the rate-limit flag of a body, ends with the
\* rate-limit error: status code 429.
C25_RateLimitErrorOnExhaustion ==
  \A r \in Runs :
    (/\ col[r].result.returned = "error"
     /\ col[r].result.allRateLimited
     /\ col[r].result.fetches = maxRetries) => col[r].result.statusCode = 429

\* C26: a request makes at most maxRetries network attempts whatever the
\* answers are; it waits for a retry only after a 429, a status of 500 or
\* more, a rate-limit flag or a network error, and never after its last
\* attempt; it ends by returning the data or by throwing an error that
\* carries the endpoint.
C26_BoundedAttempts ==
  \A r \in Runs :
    /\ col[r].fetches <= maxRetries
    /\ col[r].attempt <= maxRetries
    /\ col[r].pc = "backoff" =>
         /\ col[r].fetches < maxRetries
         /\ col[r].answer \in {"s429", "s429_retry_after", "s5xx", "rate_limit_body",
                               "network_error"}
    /\ col[r].pc = "done" =>
         \/ col[r].result.returned = "data"
         \/ /\ col[r].result.returned = "error"
            /\ col[r].result.endpoint = CachedEndpoints[generateKey(col[r])]
            /\ col[r].result.fetches <= maxRetries

\* A request gave up after network errors on all its attempts.
C26_Witness ==
  \E r \in Runs :
    /\ col[r].pc = "done" /\ col[r].result.returned = "error"
    /\ col[r].result.fetches = maxRetries
    /\ col[r].result.lastAnswer = "network_error"

\* C27: once the status of a session is completed or error, no run and no
\* update changes its status, error, collectedData, partialReports,
\* categoryReports or finalReport (the chat history is not part of the model).
C27_TerminalSessionImmutable ==
  [][(SessionId \in sessions /\ session.status \in {"completed", "error"}) =>
        session' = session]_vars

\* The keys of a map whose value differs between two versions of it.
Rewritten(old, new) ==
  {k \in (DOMAIN old) \cap (DOMAIN new) : new[k] /= old[k]}

\* C28: the updates of a live session are merged by key.  No step removes a
\* key from collectedData, partialReports or categoryReports, and a step that
\* writes a key of partialReports or of categoryReports leaves the value
\* stored under every other key as it was.
C28_UpdatesMergeByKey ==
  [][(SessionId \in sessions /\ SessionId \in sessions') =>
        /\ session.collectedData \subseteq session'.collectedData
        /\ DOMAIN session.partialReports \subseteq DOMAIN session'.partialReports
        /\ DOMAIN session.categoryReports \subseteq DOMAIN session'.categoryReports
        /\ Cardinality(Rewritten(session.partialReports, session'.partialReports)) <= 1
        /\ Cardinality(Rewritten(session.categoryReports, session'.categoryReports)) <= 1]_vars

\* Several fragments, several partial reports and a category report have
\* been written to the session one after the other.
C28_Witness ==
  /\ SessionId \in sessions
  /\ Cardinality(session.collectedData) >= 2
  /\ Cardinality(DOMAIN session.partialReports) >= 2
  /\ Cardinality(DOMAIN session.categoryReports) >= 1

\* The session was created, has not been deleted and has not outlived its
\* TTL at time t.
Live(t) == api.created /\ ~api.deleted /\ t - session.createdAt <= SESSION_TTL

\* C29: getSession returns the session exactly when it was created, not
\* deleted, and now - createdAt <= TTL; updateSession returns true in exactly
\* those cases and otherwise changes nothing of the session; a getSession or
\* an updateSession that finds the session expired removes it from the store.
\* Time never goes back, so a session once expired is never returned again.
C29_ReturnedExactlyWhileLive ==
  [][api'.calls > api.calls =>
       /\ api'.op = "getSession" => (api'.value = "session" <=> Live(now))
       /\ api'.op = "updateSession" =>
            /\ api'.value = "true" <=> Live(now)
            /\ ~Live(now) => session' = session
       /\ (/\ api'.op \in {"getSession", "updateSession"}
           /\ api.created /\ now - session.createdAt > SESSION_TTL) =>
            SessionId \notin sessions']_vars

\* getSession returned the session exactly at the limit createdAt + TTL.
C29_Witness ==
  /\ api.op = "getSession" /\ api.value = "session"
  /\ api.at = Ms(session.createdAt + SESSION_TTL)

\* C30: when a signal task has read the session and found it gone, the run
\* is aborted there: from then on the run starts no further signal task, no
\* category merge call and no final synthesis call.
C30_NothingStartedAfterLoss ==
  [][\A r \in Runs :
       pool[r].lossSeen =>
         /\ pool'[r].starts = pool[r].starts
         /\ gen'[r].mergeCalls = gen[r].mergeCalls
         /\ gen'[r].finalCalls = gen[r].finalCalls]_vars

\* Where collectData() stands after the fetch at position k has settled with
\* the given failure: the fallback query follows a standings query rejected
\* for the plan's seasons, stage 2 follows the last query.
AfterFailedFetch(g, k) ==
  IF k < Len(Fragments) THEN g.pc = "fetch" /\ g.frag = k + 1
  ELSE IF k = Len(Fragments) /\ g.pc = "fetch" THEN g.frag = FallbackFrag
  ELSE g.pc = "s2" /\ g.collectDone

\* C31: the fetches after the primary one are best effort.  When one of them
\* fails, or succeeds with no data, nothing is written to the session, the
\* next fetch (or stage 2 after the last one) follows, and the run is not
\* rejected unless its caller has gone; when one succeeds with data, the
\* fallback standings query included, its fragment is in collectedData of
\* the live session.  (With a fixture record that has no league the
\* standings query is never issued: that step is no return of a fetch.)
C31_SecondaryFailureTolerated ==
  [][\A r \in Runs :
       (/\ gen[r].pc = "fetch" /\ gen[r].frag > 1 /\ gen'[r] /= gen[r]
        /\ ~(gen[r].frag >= Len(Fragments) /\ gen[r].fixture = "noleague")) =>
          LET k == gen[r].frag
          IN IF k \in gen'[r].failedFrags \cup gen'[r].nodataFrags
             THEN /\ session'.collectedData = session.collectedData
                  /\ ~sinkBroken[r] => session' = session /\ AfterFailedFetch(gen'[r], k)
                  /\ gen'[r].pc = "rejected" => gen'[r].thrown = MsgSink
             ELSE getSession(sessions) =>
                    Fragments[Min(k, Len(Fragments))] \in session'.collectedData]_vars

\* Stage 2 has started although the statistics and the standings queries had
\* failed; the fallback standings query had succeeded.
C31_Witness ==
  \E r \in Runs :
    /\ gen[r].pc = "signals"
    /\ {2, Len(Fragments)} \subseteq gen[r].failedFrags
    /\ "statistics" \notin session.collectedData
    /\ "standings" \in session.collectedData

\* C32: every stream that is closed while its caller is still connected has
\* carried a done event, after complete as well as after server_error.
C32_StreamEndsWithDone ==
  \A r \in Runs :
    (hpc[r] = "closed" /\ ~sinkBroken[r]) =>
       /\ sent[r].done = 1
       /\ sent[r].complete + sent[r].server_error = 1

\* The digits of a configured value, in order.
DigitsOf(value) == SelectSeq(value, LAMBDA c : c \in Digits \cup {"999..."})

\* A configured value that is missing, has no digit, is negative, is zero or
\* is beyond every finite number.
InvalidRate(value) ==
  \/ value = Unset \/ value = << >>
  \/ DigitsOf(value) = << >>
  \/ SelectSeq(value, LAMBDA c : c /= " ")[1] = "-"
  \/ \A i \in 1..Len(value) : value[i] \in {"0", " "}
  \/ \A i \in 1..Len(value) : value[i] \in {"999...", " "}

\* C33: whatever the configured requests-per-minute value is, the throttle a
\* generator builds has a strictly positive minimum delay, and for an invalid
\* value the delay is that of the default rate, ceil(60000 / 8) = 7500 ms.
C33_PositiveMinDelay ==
  env.read =>
    /\ rpm > 0
    /\ minDelayMs(rpm) > 0
    /\ InvalidRate(env.APIFOOTBALL_REQUESTS_PER_MINUTE) => minDelayMs(rpm) = 7500

\* A generator was built with the value "-3".
C33_Witness ==
  /\ env.read
  /\ env.APIFOOTBALL_REQUESTS_PER_MINUTE = <<"-", "3">>
  /\ minDelayMs(rpm) = 7500

\* C34: the TTL of set() is the explicit ttl whenever one is given, 0
\* included (the entry then expires at now + ttl); with none given it is the
\* TTL of the endpoint's row of the table, and the default for an endpoint
\* the table does not list.
C34_ExplicitTtlFirst ==
  api.op = "set" =>
    cache[api.key].expiresAt =
      Plus(api.set.at, IF api.set.ttl /= NoTtl THEN Ms(api.set.ttl)
                           ELSE TableTTL(CachedEndpoints[api.key]))

\* The four fields of a result are present.
Complete(result) ==
  \A f \in {"insights", "narrative", "emoji", "confidence"} :
    result[f] \notin {"missing", "none", "threw"}

\* C35: analyzeSignal, with a chain that can be built, never rejects: whether
\* the completion service fails on every call or answers with an output in
\* which any of insights, narrative, emoji and confidence is missing or
\* invalid, it returns a result with all four fields present, after at most
\* maxRetries completion calls (one for the function that does not retry).
C35_SignalResultComplete ==
  (llm.apiKey /\ llm.pc \notin {"idle", "invoke", "wait"}) =>
     /\ llm.pc = "returned"
     /\ Complete(llm.result)
     /\ llm.calls <= (IF llm.variant = "single" THEN 1 ELSE signalMaxRetries)

\* The retrying function returned its fallback after the service had
\* answered the last of its maxRetries calls with an output that lacks
\* nothing but insights.
C35_Witness ==
  /\ llm.variant = "retrying" /\ llm.pc = "returned"
  /\ llm.calls = signalMaxRetries
  /\ llm.output = [insights |-> "missing", narrative |-> "long", emoji |-> "char",
                   confidence |-> "in_range"]
  /\ llm.received = InvokeThrew
  /\ llm.result = FallbackResult

\* C36: when generate() of a run has settled, no signal task of that run is
\* still waiting for its completion call, and no step after that writes a
\* partial report of that run; this includes the run that rejected because
\* the sink threw from a signal-start notification of one worker while the
\* other worker was in the middle of a task.
C36_NoTaskOutlivesRun ==
  [][\A r \in Runs :
       gen[r].pc \in {"resolved", "rejected"} =>
         /\ \A w \in Workers : pool[r].wpc[w] /= "llm"
         /\ Wrote(r) = { i \in 1..NumTasks : pool'[r].outcome[i] \in {"ok", "notified_late"} }]_vars

\* The runs whose generate() has been called and has not settled.
ActiveRuns == { r \in Runs : gen[r].pc \notin {"none", "resolved", "rejected"} }

\* C37: at most one pipeline run is active on the session at any time: a
\* second request for a session whose run is in progress does not execute the
\* stages next to the first.
C37_OneRunPerSession == Cardinality(ActiveRuns) <= 1

\* C38: whenever the stored session has status completed, its final report is
\* present and its error is absent, whatever runs were made on the session.
C38_CompletedHasReportAndNoError ==
  (SessionId \in sessions /\ session.status = "completed") =>
     /\ session.finalReport /= "null"
     /\ session.error = Undef

\* How many of the given recorded requests fall in the window of the given
\* length that ends at t.
InWindow(recorded, t, window) ==
  Len(SelectSeq(recorded, LAMBDA ts : t - window < ts /\ ts <= t))

\* The requests that had been recorded when checkLimit was called last.
RecordedBefore == SubSeq(limiter.recorded, 1, limiter.known)

\* The limits that were used up when checkLimit was called last, shortest
\* window first.
UsedUp ==
  SelectSeq(<<"minute", "hour", "day">>,
            LAMBDA type :
              CASE type = "minute" -> InWindow(RecordedBefore, limiter.at, Minute) >= perMinute
                [] type = "hour" -> InWindow(RecordedBefore, limiter.at, Hour) >= perHour
                [] OTHER -> InWindow(RecordedBefore, limiter.at, Day) >= perDay)

\* C39: with every recordRequest preceded by an allowed checkLimit, the
\* requests recorded for a client in any window of 60 seconds are at most
\* perMinute, in any hour at most perHour and in any 24 hours at most perDay
\* (a window ends at a recorded request and excludes its own start); a
\* request is refused exactly when some limit is used up, and the limit
\* reported is then the one with the shortest window among those.
C39_WindowsWithinLimits ==
  /\ \A i \in 1..Len(limiter.recorded) :
       /\ InWindow(limiter.recorded, limiter.recorded[i], Minute) <= perMinute
       /\ InWindow(limiter.recorded, limiter.recorded[i], Hour) <= perHour
       /\ InWindow(limiter.recorded, limiter.recorded[i], Day) <= perDay
  /\ limiter.checked =>
       /\ limiter.allowed <=> UsedUp = << >>
       /\ ~limiter.allowed => limiter.limitType = UsedUp[1]

\* C39, amended: as long as neither resetClient nor updateConfig has been
\* called, the recorded requests of a client stay within perMinute, perHour
\* and perDay in every window of a minute, an hour and a day, a request is
\* refused exactly when some limit is used up, and the limit reported is the
\* one with the shortest window. After resetClient the log is empty and a
\* full window accepts requests again; after updateConfig other limits apply.
C39_WindowsWithinLimitsUnlessReset ==
  (~limiter.reset /\ ~limiter.reconfigured) => C39_WindowsWithinLimits

\* A request was refused with the minute's and the hour's limit both used up.
C39_Witness ==
  /\ ~limiter.reset /\ ~limiter.reconfigured
  /\ limiter.checked /\ ~limiter.allowed
  /\ Len(UsedUp) >= 2
  /\ limiter.limitType = "minute"
  /\ InWindow(limiter.recorded, limiter.at, Hour) = perHour

\* C40: for every value of maxRetries, retryWithBackoff calls fn at least
\* once and at most maxRetries times; it returns on the first success without
\* a further call; when every call failed it throws the error of the last
\* call; and no wait before a retry is longer than maxDelay.
C40_RetryBounded ==
  /\ retry.pc \in {"returned", "thrown"} =>
       /\ retry.calls >= 1
       /\ retry.calls <= retry.maxRetries
  /\ retry.pc = "returned" => retry.calls = retry.failed + 1
  /\ retry.pc = "thrown" =>
       /\ retry.failed = retry.calls
       /\ retry.thrown = ErrorOf(retry.calls)
  /\ retry.longestWait <= retry.maxDelay

====
